---- MODULE Spec2Model ----
(***************************************************************************)
(* notion-local-mcp: the read-only query operations over the local Notion  *)
(* cache (search, listRecent, getPage, getParents, getChildren), the row   *)
(* store they read and the property decoders they call.                    *)
(*                                                                         *)
(* Strings are sequences of one-character strings, so that removing        *)
(* dashes, trimming and pattern matching are computed and not assumed.     *)
(* SQL NULL / JS null of a string column is the one-element sequence NULL, *)
(* whose element is no character of any text; a NULL timestamp is the      *)
(* empty tuple.                                                            *)
(***************************************************************************)
EXTENDS Integers, Sequences, FiniteSets, TLC

VARIABLES block, collection, db, configFile, pc, req, loc, resp, issued

vars == <<block, collection, db, configFile, pc, req, loc, resp, issued>>

(***************************************************************************)
(* Bounds of the model.                                                    *)
(***************************************************************************)
\* number of rows of the block table
NB == 3

(***************************************************************************)
(* Strings.                                                                *)
(***************************************************************************)
NULL == <<"NULL">>

RECURSIVE Concat(_)
Concat(ss) == IF ss = <<>> THEN <<>> ELSE Head(ss) \o Concat(Tail(ss))

Min(S) == CHOOSE m \in S : \A n \in S : m <= n

\* String.prototype.replace(/-/g, ''), SQL REPLACE(id, '-', '')
StripDashes(s) == SelectSeq(s, LAMBDA ch : ch # "-")

Whitespace == {" ", "\t", "\n"}

RECURSIVE TrimStart(_)
TrimStart(s) ==
  IF s # <<>> /\ Head(s) \in Whitespace THEN TrimStart(Tail(s)) ELSE s

RECURSIVE TrimEnd(_)
TrimEnd(s) ==
  IF s # <<>> /\ s[Len(s)] \in Whitespace
  THEN TrimEnd(SubSeq(s, 1, Len(s) - 1))
  ELSE s

\* String.prototype.trim()
Trim(s) == TrimEnd(TrimStart(s))

\* JS truthiness of a string | null | undefined value
Truthy(s) == s # NULL /\ s # <<>>

HexDigits == <<"0", "1", "2", "3", "4", "5", "6", "7", "8", "9", "a", "b", "c", "d", "e", "f">>

(***************************************************************************)
(* The two configuration files setup writes (paths.ts): the one of Claude  *)
(* Desktop and ~/.claude.json of Claude Code.  A file is its text, or      *)
(* NoFile while it does not exist.                                         *)
(***************************************************************************)
NoFile == <<"ENOENT">>

ConfigPaths == {"claude_desktop_config.json", ".claude.json"}

NoFiles == [path \in ConfigPaths |-> NoFile]

(***************************************************************************)
(* JSON values, as JSON.parse yields them: tagged records.  An object is   *)
(* its sequence of <<key, value>> pairs in insertion order.                *)
(***************************************************************************)
JStr(s) == [t |-> "str", v |-> s]

JArr(a) == [t |-> "arr", v |-> a]

JObj(pairs) == [t |-> "obj", v |-> pairs]

JNull == [t |-> "null", v |-> <<>>]

JBool(b) == [t |-> "bool", v |-> <<b>>]

JNum(n) == [t |-> "num", v |-> <<n>>]

JNaN == [t |-> "NaN", v |-> <<>>]

\* the outcome of a function that throws a TypeError
TypeError(message) == [t |-> "throw", v |-> message]

\* the value of a missing member: JS undefined
JUndefined == [t |-> "undefined", v |-> <<>>]

\* the outcome of a JSON.parse that throws
ParseError == [t |-> "error", v |-> <<>>]

RECURSIVE JoinWith(_, _)
JoinWith(ss, sep) ==
  IF ss = <<>> THEN <<>>
  ELSE IF Len(ss) = 1 THEN ss[1]
  ELSE ss[1] \o sep \o JoinWith(Tail(ss), sep)

\* the JSON text of a value (the form the block.properties column holds)
RECURSIVE Stringify(_)
Stringify(j) ==
  CASE j.t = "str" -> <<"\"">> \o j.v \o <<"\"">>
    [] j.t = "arr" ->
         <<"[">> \o JoinWith([i \in 1..Len(j.v) |-> Stringify(j.v[i])], <<",">>)
                \o <<"]">>
    [] j.t = "obj" ->
         <<"{">> \o JoinWith([i \in 1..Len(j.v) |->
                        <<"\"">> \o j.v[i][1] \o <<"\"", ":">>
                          \o Stringify(j.v[i][2])], <<",">>)
                \o <<"}">>
    [] j.t = "bool" -> IF j.v[1] THEN <<"true">> ELSE <<"false">>
    [] OTHER -> <<"n", "u", "l", "l">>

\* the member of an object under a key (the last pair wins), else undefined
Member(j, key) ==
  IF j.t # "obj" THEN JUndefined
  ELSE LET hits == {i \in 1..Len(j.v) : j.v[i][1] = key}
       IN IF hits = {} THEN JUndefined
          ELSE j.v[CHOOSE i \in hits : \A k \in hits : k <= i][2]

(***************************************************************************)
(* The property blobs of the stores: JSON texts of property maps, one text *)
(* that is not JSON, and NULL.                                             *)
(***************************************************************************)
TitleKey == <<"t", "i", "t", "l", "e">>

\* the page-reference glyph U+2023, one character
RefGlyph == <<"U+2023">>

\* a rich-text value whose segments are [text], without annotations
RichText(texts) == JArr([i \in 1..Len(texts) |-> JArr(<<JStr(texts[i])>>)])

TitledDoc(texts) == JObj(<< <<TitleKey, RichText(texts)>> >>)

JsonDocs ==
  { TitledDoc(<< <<"T">> >>),
    TitledDoc(<< <<"U">>, <<" ">>, <<"v">> >>),
    TitledDoc(<< <<" ">> >>),
    TitledDoc(<< RefGlyph >>),
    TitledDoc(<<>>),
    JObj(<< <<TitleKey, JNull>> >>),
    JObj(<< <<TitleKey, JStr(<<"T">>)>> >>),
    JObj(<< <<<<"x">>, RichText(<< <<"b">> >>)>> >>),
    JObj(<<>>),
    RichText(<< <<"D">> >>),
    JNull }

BadJsonText == <<"{", "T">>

\* the fixed words of schemas and decoded properties, one token each
NameKey == <<"name">>

TypeKey == <<"type">>

OptionsKey == <<"options">>

ValueKey == <<"value">>

SchemaProp(name, type) ==
  JObj(<< <<NameKey, JStr(name)>>, <<TypeKey, JStr(type)>> >>)

SelectProp(options) ==
  JObj(<< <<NameKey, JStr(<<"G">>)>>, <<TypeKey, JStr(<<"select">>)>>,
          <<OptionsKey, options>> >>)

\* a schema with a property of every decoded type
FullSchema ==
  JObj(<< <<<<"c">>, SchemaProp(<<"D">>, <<"checkbox">>)>>,
          <<<<"r">>, SchemaProp(<<"R">>, <<"relation">>)>>,
          <<<<"n">>, SchemaProp(<<"N">>, <<"number">>)>>,
          <<<<"m">>, SchemaProp(<<"M">>, <<"multi_select">>)>>,
          <<<<"d">>, SchemaProp(<<"W">>, <<"date">>)>>,
          <<<<"s">>, SelectProp(JArr(<<JObj(<< <<ValueKey, JStr(<<"o">>)>> >>)>>))>> >>)

\* schemas: well formed, and JSON of the wrong shape (an entry that is
\* null, a string or an empty object; options that are a string, an
\* object, an empty list, a list holding null; two properties of one name)
SchemaDocs ==
  { FullSchema,
    JObj(<< <<<<"c">>, JNull>> >>),
    JObj(<< <<<<"c">>, JStr(<<"x">>)>> >>),
    JObj(<< <<<<"c">>, JObj(<<>>)>> >>),
    JObj(<< <<<<"s">>, SelectProp(JStr(<<"x">>))>> >>),
    JObj(<< <<<<"s">>, SelectProp(JObj(<<>>))>> >>),
    JObj(<< <<<<"s">>, SelectProp(JArr(<<>>))>> >>),
    JObj(<< <<<<"s">>, SelectProp(JArr(<<JNull>>))>> >>),
    JObj(<< <<<<"c">>, SchemaProp(<<"D">>, <<"checkbox">>)>>,
            <<<<"x">>, SchemaProp(<<"D">>, <<"text">>)>> >>) }

\* the annotation of a page reference
PageRef(id) == JArr(<<JStr(<<"p">>), JStr(id)>>)

\* property maps: values of the stored form, and values of the wrong shape
\* (null, a string, an object, a relation without a reference)
PropertyDocs ==
  { JObj(<< <<<<"c">>, RichText(<< <<"Yes">> >>)>>,
            <<<<"x">>, RichText(<< <<"b">> >>)>> >>),
    JObj(<< <<<<"r">>, JArr(<<JArr(<<JStr(RefGlyph), JArr(<<PageRef(<<"i">>)>>)>>)>>)>> >>),
    JObj(<< <<<<"r">>, RichText(<< <<"b">> >>)>> >>),
    JObj(<< <<<<"r">>, JObj(<<>>)>> >>),
    JObj(<< <<<<"r">>, JStr(<<"z">>)>> >>),
    JObj(<< <<<<"r">>, JBool(TRUE)>> >>),
    JObj(<< <<<<"c">>, JNull>> >>),
    JObj(<< <<<<"c">>, JObj(<<>>)>> >>),
    JObj(<< <<<<"n">>, RichText(<< <<"1", "2">> >>)>> >>),
    JObj(<< <<<<"n">>, RichText(<< <<"b">> >>)>> >>),
    JObj(<< <<<<"m">>, RichText(<< <<"a", ",", " ", "b">> >>)>> >>),
    JObj(<< <<<<"d">>, RichText(<< <<"U">> >>)>>, <<<<"s">>, RichText(<< <<"o">> >>)>> >>) }

\* every JSON text of the model with the value it denotes
ParseTable == {<<Stringify(d), d>> : d \in JsonDocs \cup SchemaDocs \cup PropertyDocs}

\* JSON.parse on the texts a store can hold
JsonParse(text) ==
  IF \E p \in ParseTable : p[1] = text
  THEN (CHOOSE p \in ParseTable : p[1] = text)[2]
  ELSE ParseError

(***************************************************************************)
(* The decoders (parser.ts).                                               *)
(***************************************************************************)
\* a decoder that trims every segment
SegmentTextTrimmed(segment) ==
  IF segment.t # "arr" THEN <<>>
  ELSE IF Len(segment.v) < 1 THEN <<>>
  ELSE IF segment.v[1].t # "str" THEN <<>>
  ELSE IF segment.v[1].v = RefGlyph THEN <<>>
  ELSE Trim(segment.v[1].v)

SegmentText(segment) ==
  IF segment.t # "arr" THEN <<>>
  ELSE IF Len(segment.v) < 1 THEN <<>>
  ELSE IF segment.v[1].t # "str" THEN <<>>
  ELSE IF segment.v[1].v = RefGlyph THEN <<>>
  ELSE segment.v[1].v

extractTextFromRichText(richText) ==
  IF richText.t # "arr" THEN <<>>
  ELSE Trim(Concat([i \in 1..Len(richText.v) |-> SegmentText(richText.v[i])]))

extractTitle(propertiesJson) ==
  IF ~Truthy(propertiesJson) THEN <<>>
  ELSE LET properties == JsonParse(propertiesJson)
       IN IF properties.t \in {"error", "null"} THEN <<>>
          ELSE extractTextFromRichText(Member(properties, TitleKey))

\* Object.keys(properties) and the member under each key, in key order
Entries(j) == IF j.t \in {"obj", "arr"} THEN j.v ELSE <<>>

EntryValue(j, i) == IF j.t = "obj" THEN j.v[i][2] ELSE j.v[i]

extractAllText(propertiesJson) ==
  IF ~Truthy(propertiesJson) THEN <<>>
  ELSE LET properties == JsonParse(propertiesJson)
           texts == [i \in 1..Len(Entries(properties)) |->
                       extractTextFromRichText(EntryValue(properties, i))]
       IN IF properties.t \in {"error", "null"} THEN <<>>
          ELSE Trim(JoinWith(SelectSeq(texts, LAMBDA x : x # <<>>), <<" ">>))

truncateText(text, maxLength) ==
  IF Len(text) <= maxLength THEN text
  ELSE SubSeq(text, 1, maxLength) \o <<"U+2026">>

(***************************************************************************)
(* Instants.  A millisecond timestamp t is held as <<t div DayMs,          *)
(* t mod DayMs>>: 30 * 86400000 does not fit TLC's 32-bit integers, and    *)
(* subtracting whole days leaves the second component alone.  NULL is <<>>.*)
(***************************************************************************)
DayMs == 86400000

NullTime == <<>>

Later(a, b) == a[1] > b[1] \/ (a[1] = b[1] /\ a[2] > b[2])

\* !timestamp: null or 0
FalsyTime(t) == t = NullTime \/ t = <<0, 0>>

\* new Date(timestamp).toISOString(): a one-to-one rendering of the instant
formatTimestamp(timestamp) ==
  IF FalsyTime(timestamp) THEN <<>> ELSE <<"ISO">> \o timestamp

\* String.prototype.slice(from, to) for 0 <= from <= to
Slice(s, from, to) ==
  IF from >= Len(s) THEN <<>>
  ELSE SubSeq(s, from + 1, IF to < Len(s) THEN to ELSE Len(s))

\* `${id.slice(0, 8)}-${id.slice(8, 12)}-${id.slice(12, 16)}-${id.slice(16, 20)}-${id.slice(20)}`
\* unless id.includes('-')
formatNotionId(id) ==
  IF \E i \in 1..Len(id) : id[i] = "-" THEN id
  ELSE Slice(id, 0, 8) \o <<"-">> \o Slice(id, 8, 12) \o <<"-">>
         \o Slice(id, 12, 16) \o <<"-">> \o Slice(id, 16, 20) \o <<"-">>
         \o Slice(id, 20, Len(id))

UrlPrefix == <<"https://notion.so/">>

createNotionUrl(pageId) == UrlPrefix \o StripDashes(pageId)

(***************************************************************************)
(* The store (database.ts).  A table is the sequence of its rows in scan   *)
(* order; a statement with LIMIT 1 and no ORDER BY yields the first row of *)
(* the scan that satisfies its WHERE clause.                               *)
(***************************************************************************)
BlockRow(id, type, properties, parent_id, created_time, last_edited_time, alive, collection_id, parent_table) ==
  [id |-> id, type |-> type, properties |-> properties,
   parent_id |-> parent_id, created_time |-> created_time,
   last_edited_time |-> last_edited_time, alive |-> alive,
   collection_id |-> collection_id, parent_table |-> parent_table]

CollectionRow(id, name, schema, alive) ==
  [id |-> id, name |-> name, schema |-> schema, alive |-> alive]

\* rows[0] of an empty result: JS undefined
NoRow == [none |-> TRUE]

\* ORDER BY key ASC over the positions in S (key: a function to integers),
\* rows of equal key in scan order
RECURSIVE OrderBy(_, _)
OrderBy(S, key) ==
  IF S = {} THEN <<>>
  ELSE LET firsts == {i \in S : \A j \in S : key[i] <= key[j]}
           m == Min(firsts)
       IN <<m>> \o OrderBy(S \ {m}, key)

Rows(tbl, positions) == [k \in 1..Len(positions) |-> tbl[positions[k]]]

\* queryBlock / queryCollection: rows[0] ?? undefined
FirstRow(tbl, S) == IF S = {} THEN NoRow ELSE tbl[Min(S)]

\* a statement that compares the literal identifier only
IdMatchesLiteral(row, id, normalizedId) == row.id = id /\ row.alive = 1

\* a statement that takes tombstones too
IdMatchesAnyRow(row, id, normalizedId) ==
  row.id = id \/ StripDashes(row.id) = normalizedId

\* WHERE (id = ? OR REPLACE(id, '-', '') = ?) AND alive = 1
IdMatches(row, id, normalizedId) ==
  (row.id = id \/ StripDashes(row.id) = normalizedId) /\ row.alive = 1

\* SELECT ... FROM block WHERE (id = ? OR REPLACE(id,'-','') = ?) AND alive = 1 LIMIT 1
SelectBlockById(tbl, id, normalizedId) ==
  FirstRow(tbl, {i \in 1..Len(tbl) : IdMatches(tbl[i], id, normalizedId)})

queryCollection(tbl, collectionId) ==
  LET normalizedId == StripDashes(collectionId)
  IN FirstRow(tbl, {i \in 1..Len(tbl) :
                      IdMatches(tbl[i], collectionId, normalizedId)})

\* a statement that forgets the liveness flag
IsChildOfAnyRow(row, parentId) == row.parent_id = parentId

\* WHERE parent_id = ? AND alive = 1
IsChildOf(row, parentId) == row.parent_id = parentId /\ row.alive = 1

\* SELECT id, type, properties FROM block WHERE parent_id = ? AND alive = 1
\*   ORDER BY created_time ASC
SelectChildBlocks(tbl, parentId) ==
  Rows(tbl, OrderBy({i \in 1..Len(tbl) : IsChildOf(tbl[i], parentId)},
                    [i \in 1..Len(tbl) |-> tbl[i].created_time]))

\* a statement that forgets the type
IsChildOfAnyType(row, parentId) == row.parent_id = parentId /\ row.alive = 1

\* WHERE parent_id = ? AND type = 'page' AND alive = 1
IsChildPageOf(row, parentId) ==
  row.parent_id = parentId /\ row.type = "page" /\ row.alive = 1

SelectChildPages(tbl, parentId) ==
  Rows(tbl, OrderBy({i \in 1..Len(tbl) : IsChildPageOf(tbl[i], parentId)},
                    [i \in 1..Len(tbl) |-> tbl[i].created_time]))

\* escapeValue of a string: quoted, every ' doubled
RECURSIVE DoubleQuotes(_)
DoubleQuotes(s) ==
  IF s = <<>> THEN <<>>
  ELSE (IF Head(s) = "'" THEN <<"'", "'">> ELSE <<Head(s)>>)
         \o DoubleQuotes(Tail(s))

escapeValue(value) == <<"'">> \o DoubleQuotes(value) \o <<"'">>

\* the string an SQL string literal denotes: '' inside the quotes is one '
RECURSIVE UndoubleQuotes(_)
UndoubleQuotes(s) ==
  IF s = <<>> THEN <<>>
  ELSE IF Len(s) >= 2 /\ s[1] = "'" /\ s[2] = "'"
  THEN <<"'">> \o UndoubleQuotes(Tail(Tail(s)))
  ELSE <<Head(s)>> \o UndoubleQuotes(Tail(s))

SqlString(literal) == UndoubleQuotes(SubSeq(literal, 2, Len(literal) - 1))

\* bindParams: the value the statement compares with, for a string parameter
Bound(value) == SqlString(escapeValue(value))

\* SQLite folds the case of ASCII letters in LIKE
Fold(ch) ==
  CASE ch = "T" -> "t"
    [] ch = "U" -> "u"
    [] ch = "B" -> "b"
    [] OTHER -> ch

\* text LIKE pattern: % matches any run of characters, _ any one character
RECURSIVE Like(_, _)
Like(text, pattern) ==
  IF pattern = <<>> THEN text = <<>>
  ELSE IF Head(pattern) = "%"
  THEN Like(text, Tail(pattern)) \/ (text # <<>> /\ Like(Tail(text), pattern))
  ELSE /\ text # <<>>
       /\ (Head(pattern) = "_" \/ Fold(Head(pattern)) = Fold(Head(text)))
       /\ Like(Tail(text), Tail(pattern))

\* b is a NULL or an earlier instant than a (NULL sorts below every instant)
Newer(a, b) == a # NullTime /\ (b = NullTime \/ Later(a, b))

\* the place of row i under ORDER BY last_edited_time DESC
EditRank(tbl, i) ==
  Cardinality({j \in 1..Len(tbl) :
                 Newer(tbl[j].last_edited_time, tbl[i].last_edited_time)})

\* LIMIT n: a negative n is no limit
Limit(rows, n) ==
  IF n < 0 \/ n >= Len(rows) THEN rows ELSE SubSeq(rows, 1, n)

\* a statement that forgets the type
MatchesPageOfAnyType(row, pattern) ==
  /\ row.alive = 1
  /\ row.properties # NULL /\ Like(row.properties, pattern)

\* WHERE alive = 1 AND type = 'page' AND properties LIKE ?
MatchesPage(row, pattern) ==
  /\ row.alive = 1
  /\ row.type = "page"
  /\ row.properties # NULL /\ Like(row.properties, pattern)

\* WHERE alive = 1 AND properties LIKE ?
MatchesAny(row, pattern) ==
  /\ row.alive = 1
  /\ row.properties # NULL /\ Like(row.properties, pattern)

\* ... ORDER BY last_edited_time DESC LIMIT ?
SelectPagesLike(tbl, pattern, limit) ==
  Limit(Rows(tbl, OrderBy({i \in 1..Len(tbl) : MatchesPage(tbl[i], pattern)},
                          [i \in 1..Len(tbl) |-> EditRank(tbl, i)])), limit)

\* a statement that orders by last_edited_time DESC alone
SelectBlocksLikeByTime(tbl, pattern, limit) ==
  Limit(Rows(tbl, OrderBy({i \in 1..Len(tbl) : MatchesAny(tbl[i], pattern)},
                          [i \in 1..Len(tbl) |-> EditRank(tbl, i)])), limit)

\* ... ORDER BY CASE WHEN type = 'page' THEN 0 ELSE 1 END, last_edited_time DESC
\*     LIMIT ?
SelectBlocksLike(tbl, pattern, limit) ==
  Limit(Rows(tbl, OrderBy({i \in 1..Len(tbl) : MatchesAny(tbl[i], pattern)},
                          [i \in 1..Len(tbl) |->
                             (IF tbl[i].type = "page" THEN 0 ELSE Len(tbl))
                               + EditRank(tbl, i)])), limit)

\* a statement that takes the cutoff instant itself for recent
IsRecentPageInclusive(row, cutoffTime) ==
  /\ row.type = "page"
  /\ row.alive = 1
  /\ row.last_edited_time # NullTime /\ ~Later(cutoffTime, row.last_edited_time)

\* WHERE type = 'page' AND alive = 1 AND last_edited_time > ?
IsRecentPage(row, cutoffTime) ==
  /\ row.type = "page"
  /\ row.alive = 1
  /\ row.last_edited_time # NullTime /\ Later(row.last_edited_time, cutoffTime)

\* a statement that drops the untitled pages before it limits
SelectRecentTitledPages(tbl, cutoffTime, limit) ==
  Limit(Rows(tbl, OrderBy({i \in 1..Len(tbl) :
                             /\ IsRecentPage(tbl[i], cutoffTime)
                             /\ extractTitle(tbl[i].properties) # <<>>},
                          [i \in 1..Len(tbl) |-> EditRank(tbl, i)])), limit)

\* ... ORDER BY last_edited_time DESC LIMIT ?
SelectRecentPages(tbl, cutoffTime, limit) ==
  Limit(Rows(tbl, OrderBy({i \in 1..Len(tbl) : IsRecentPage(tbl[i], cutoffTime)},
                          [i \in 1..Len(tbl) |-> EditRank(tbl, i)])), limit)

\* a recursive member that forgets the liveness flag
JoinChildrenAnyRow(tbl, level) ==
  {i \in 1..Len(tbl) : \E j \in level : tbl[i].parent_id = tbl[j].id}

\* one round of the recursive query of countAllBlocks: the alive rows whose
\* parent_id is the id of a row of the previous round
\*   SELECT b.id FROM block b INNER JOIN block_tree bt ON b.parent_id = bt.id
\*   WHERE b.alive = 1
JoinChildren(tbl, level) ==
  {i \in 1..Len(tbl) :
     tbl[i].alive = 1 /\ \E j \in level : tbl[i].parent_id = tbl[j].id}

\* its first round: SELECT id FROM block WHERE parent_id = ? AND alive = 1
SeedChildren(tbl, parentId) ==
  {i \in 1..Len(tbl) : IsChildOf(tbl[i], parentId)}

(***************************************************************************)
(* Identifiers.  Row k of the block table carries the identifier of        *)
(* block k, written without dashes or with a dash; a request or a parent   *)
(* reference names a block in either form.                                 *)
(***************************************************************************)
IdChars == <<"a", "b", "c", "d", "e", "f", "g", "h">>

Undashed(k) == <<IdChars[k], IdChars[k]>>

Dashed(k) == <<IdChars[k], "-", IdChars[k]>>

\* an identifier of no row
MissingId == <<"z", "z">>

BlockForms == {Undashed(k) : k \in 1..NB} \cup {Dashed(k) : k \in 1..NB}

\* the pageId arguments of a request: present or not, empty, blank, unknown,
\* known
PageIdArgs == BlockForms \cup {MissingId, NULL, <<>>, <<" ">>}

(***************************************************************************)
(* Requests and responses.                                                 *)
(***************************************************************************)
NoRequest == [op |-> "none"]

NoLocals == [fn |-> "none"]

NoResponse == [kind |-> "none"]

Returned(value) == [kind |-> "ok", value |-> value]

Thrown(message) == [kind |-> "error", message |-> message]

\* a check that does not trim
BlankArgUntrimmed(s) == ~Truthy(s)

\* !pageId || pageId.trim().length === 0
BlankArg(s) == ~Truthy(s) \/ Len(Trim(s)) = 0

PageIdRequired == <<"pageId is required">>

(***************************************************************************)
(* The call handler (index.ts) runs one tool function to its end and hands *)
(* its outcome to the transport; nothing of a request is kept for the next *)
(* one.                                                                    *)
(***************************************************************************)
\* a connection on which a statement of a request deletes the rows
runQueryWriting(tbl, statements) == IF statements = <<>> THEN tbl ELSE <<>>

\* runQuery: a table after the statements of a request have run.  Every
\* statement is a SELECT, run by sqlite3 -readonly.
runQuery(tbl, statements) == tbl

\* the sqlite3 process fails and runQuery throws: stderr names a missing
\* table, or the exit status is not 1 or stderr is not empty
QueryThrows == db \in {"no such table", "failed"}

\* the result set runQuery returns to its caller: the rows, or no rows when
\* the process exits with status 1 and nothing on stderr ("silent")
Read(tbl) == IF db = "silent" THEN <<>> ELSE tbl

\* the message of the Error runQuery throws when the sqlite3 process fails
QueryError ==
  IF db = "no such table"
  THEN <<"Database table not found: ", "no such table: block">>
  ELSE <<"sqlite3 query failed: ", "unable to open database file">>

\* the outcome of an operation that hands these statements to runQuery and
\* yields this result when they all succeed: the first statement throws
\* when the process fails
Outcome(result, statements) ==
  IF ~QueryThrows \/ statements = <<>> THEN result ELSE Thrown(QueryError)

\* the statements that reach the store: none after one has thrown
Issued(statements) ==
  IF ~QueryThrows \/ statements = <<>> THEN statements
  ELSE <<Head(statements)>>

\* a handler that does not set the error flag
HandlerResponseUnflagged(outcome) ==
  [text |-> IF outcome.kind = "error"
            THEN Stringify(JObj(<< <<<<"error">>, JStr(outcome.message)>> >>))
            ELSE <<"JSON.stringify", outcome.value>>,
   isError |-> <<>>]

\* what the handler returns to the transport for the outcome of the
\* operation: JSON.stringify(result, null, 2), or in its catch
\* JSON.stringify({ error: message }) with isError: true
HandlerResponse(outcome) ==
  IF outcome.kind = "error"
  THEN [text |-> Stringify(JObj(<< <<<<"error">>, JStr(outcome.message)>> >>)),
        isError |-> <<TRUE>>]
  ELSE [text |-> <<"JSON.stringify", outcome.value>>, isError |-> <<>>]

\* a handler that keeps the locals of the operation for the next request
DeliverKeepingLocals ==
  /\ pc = "idle" /\ req # NoRequest
  /\ req' = NoRequest
  /\ loc' = loc
  /\ resp' = NoResponse
  /\ issued' = <<>>
  /\ block' = runQuery(block, issued)
  /\ collection' = runQuery(collection, issued)
  /\ UNCHANGED <<configFile, db, pc>>

Deliver ==
  /\ pc = "idle" /\ req # NoRequest
  /\ req' = NoRequest
  /\ loc' = NoLocals
  /\ resp' = NoResponse
  /\ issued' = <<>>
  /\ block' = runQuery(block, issued)
  /\ collection' = runQuery(collection, issued)
  /\ UNCHANGED <<configFile, db, pc>>

UnknownTool(name) == <<"Unknown tool: ">> \o name

\* default: throw new Error(`Unknown tool: ${name}`)
UnknownCall(name) ==
  /\ pc = "idle" /\ req = NoRequest
  /\ req' = [op |-> "unknown", name |-> name]
  /\ resp' = Thrown(UnknownTool(name))
  /\ issued' = <<>>
  /\ loc' = NoLocals
  /\ UNCHANGED <<configFile, db, block, collection, pc>>

(***************************************************************************)
(* getParents (tools/hierarchy.ts): one action for the entry of the        *)
(* function up to its loop, one for each iteration of the loop.            *)
(***************************************************************************)
HierarchyNode(row, url) ==
  [id |-> row.id, title |-> extractTitle(row.properties), type |-> row.type,
   url |-> url, children |-> <<>>]

\* a walk that never finds an identifier in its visited set
VisitedHasNever(visited, currentId) == FALSE

\* visited.has(currentId)
VisitedHas(visited, currentId) == currentId \in visited

\* a walk that goes one level further down
DepthReachedLate(currentDepth, maxDepth) == currentDepth > maxDepth

\* currentDepth >= maxDepth, of getChildrenRecursive and getChildBlocks
DepthReached(currentDepth, maxDepth) == currentDepth >= maxDepth

\* a walk that takes the start block for an ancestor
IsAncestorAlways(ancestors, currentId, pageId) == TRUE

\* ancestors.length > 0 || currentId !== pageId
IsAncestor(ancestors, currentId, pageId) ==
  Len(ancestors) > 0 \/ currentId # pageId

ParentsCall(pageId) ==
  /\ pc = "idle" /\ req = NoRequest
  /\ req' = [op |-> "getParents", pageId |-> pageId]
  /\ IF BlankArg(pageId)
     THEN /\ pc' = "idle"
          /\ loc' = NoLocals
          /\ resp' = Thrown(PageIdRequired)
     ELSE /\ pc' = "parents"
          /\ loc' = [fn |-> "getParents", currentId |-> pageId,
                     visited |-> {}, ancestors |-> <<>>, reads |-> 0]
          /\ resp' = NoResponse
  /\ issued' = <<>>
  /\ UNCHANGED <<configFile, db, block, collection>>

ParentsStep ==
  /\ pc = "parents"
  /\ LET currentId == loc.currentId
         found == SelectBlockById(Read(block), currentId, StripDashes(currentId))
     IN IF ~Truthy(currentId) \/ VisitedHas(loc.visited, currentId)
        THEN /\ pc' = "idle"
             /\ resp' = Returned(loc.ancestors)
             /\ loc' = loc
             /\ issued' = issued
        ELSE IF QueryThrows
        THEN /\ pc' = "idle"
             /\ resp' = Thrown(QueryError)
             /\ loc' = [loc EXCEPT !.visited = @ \cup {currentId},
                                   !.reads = @ + 1]
             /\ issued' = Append(issued, "SelectBlockById")
        ELSE IF found = NoRow
        THEN /\ pc' = "idle"
             /\ resp' = Returned(loc.ancestors)
             /\ loc' = [loc EXCEPT !.visited = @ \cup {currentId},
                                   !.reads = @ + 1]
             /\ issued' = Append(issued, "SelectBlockById")
        ELSE /\ pc' = "parents"
             /\ resp' = resp
             /\ issued' = Append(issued, "SelectBlockById")
             /\ loc' = [loc EXCEPT
                  !.visited = @ \cup {currentId},
                  !.reads = @ + 1,
                  !.ancestors =
                     IF IsAncestor(loc.ancestors, currentId, req.pageId)
                     THEN Append(@, HierarchyNode(found,
                            IF found.type = "page"
                            THEN createNotionUrl(found.id) ELSE <<>>))
                     ELSE @,
                  !.currentId = found.parent_id]
  /\ UNCHANGED <<configFile, db, block, collection, req>>

(***************************************************************************)
(* Optional parameters of a request: <<>> when the caller leaves one out,  *)
(* <<v>> when it passes v.                                                 *)
(***************************************************************************)
Absent == <<>>

Given(v) == <<v>>

\* a destructuring default, and ??
ArgOr(arg, default) == IF arg = Absent THEN default ELSE arg[1]

(***************************************************************************)
(* getChildren (tools/hierarchy.ts).                                       *)
(***************************************************************************)
DefaultDepth == 2

RECURSIVE getChildrenRecursive(_, _, _)
getChildrenRecursive(parentId, currentDepth, maxDepth) ==
  IF DepthReached(currentDepth, maxDepth) THEN <<>>
  ELSE LET rows == SelectChildPages(Read(block), parentId)
       IN [i \in 1..Len(rows) |->
             [HierarchyNode(rows[i], createNotionUrl(rows[i].id)) EXCEPT
                !.children =
                   getChildrenRecursive(rows[i].id, currentDepth + 1, maxDepth)]]

getChildren(pageId, depth) ==
  IF BlankArg(pageId) THEN Thrown(PageIdRequired)
  ELSE Returned(getChildrenRecursive(pageId, 0, ArgOr(depth, DefaultDepth)))

\* the statements getChildrenRecursive hands to queryBlocks, in order
RECURSIVE ChildrenQueries(_, _, _)
ChildrenQueries(parentId, currentDepth, maxDepth) ==
  IF DepthReached(currentDepth, maxDepth) THEN <<>>
  ELSE LET rows == SelectChildPages(Read(block), parentId)
       IN <<"SelectChildPages">>
            \o Concat([i \in 1..Len(rows) |->
                         ChildrenQueries(rows[i].id, currentDepth + 1, maxDepth)])

\* the statements of a call of getChildren: none when it throws at its check
getChildrenQueries(pageId, depth) ==
  IF BlankArg(pageId) THEN <<>>
  ELSE ChildrenQueries(pageId, 0, ArgOr(depth, DefaultDepth))

ChildrenCall(pageId, depth) ==
  /\ pc = "idle" /\ req = NoRequest
  /\ req' = [op |-> "getChildren", pageId |-> pageId, depth |-> depth]
  /\ resp' = Outcome(getChildren(pageId, depth),
                     getChildrenQueries(pageId, depth))
  /\ issued' = Issued(getChildrenQueries(pageId, depth))
  /\ loc' = NoLocals
  /\ UNCHANGED <<configFile, db, block, collection, pc>>

(***************************************************************************)
(* search (tools/search.ts).                                               *)
(***************************************************************************)
DefaultLimit == 20

QueryRequired == <<"Query is required">>

SearchResult(row) ==
  [id |-> row.id,
   title |-> IF extractTitle(row.properties) # <<>>
             THEN extractTitle(row.properties)
             ELSE <<"[", row.type, "]">>,
   type |-> row.type,
   lastEdited |-> formatTimestamp(row.last_edited_time),
   url |-> IF row.type = "page" THEN createNotionUrl(row.id) ELSE <<>>]

search(query, type, limit) ==
  IF BlankArg(query) THEN Thrown(QueryRequired)
  ELSE LET searchPattern == Bound(<<"%">> \o query \o <<"%">>)
           rows == IF ArgOr(type, "page") = "page"
                   THEN SelectPagesLike(Read(block), searchPattern,
                                        ArgOr(limit, DefaultLimit))
                   ELSE SelectBlocksLike(Read(block), searchPattern,
                                         ArgOr(limit, DefaultLimit))
       IN Returned([i \in 1..Len(rows) |-> SearchResult(rows[i])])

\* the statements of a call of search: none when it throws at its check
searchQueries(query, type) ==
  IF BlankArg(query) THEN <<>>
  ELSE IF ArgOr(type, "page") = "page" THEN <<"SelectPagesLike">>
  ELSE <<"SelectBlocksLike">>

SearchCall(query, type, limit) ==
  /\ pc = "idle" /\ req = NoRequest
  /\ req' = [op |-> "search", query |-> query, type |-> type, limit |-> limit]
  /\ resp' = Outcome(search(query, type, limit), searchQueries(query, type))
  /\ issued' = Issued(searchQueries(query, type))
  /\ loc' = NoLocals
  /\ UNCHANGED <<configFile, db, block, collection, pc>>

(***************************************************************************)
(* listRecent (tools/recent.ts, getRecentPages).                           *)
(***************************************************************************)
DefaultDays == 30

\* Date.now() - days * 24 * 60 * 60 * 1000
CutoffTime(now, days) == <<now[1] - days, now[2]>>

RecentPage(row) ==
  [id |-> row.id, title |-> extractTitle(row.properties),
   lastEdited |-> formatTimestamp(row.last_edited_time),
   url |-> createNotionUrl(row.id)]

\* .filter((page) => page.title.length > 0)
HasTitle(page) == Len(page.title) > 0

getRecentPages(now, limit, days) ==
  LET cutoffTime == CutoffTime(now, ArgOr(days, DefaultDays))
      rows == SelectRecentPages(Read(block), cutoffTime, ArgOr(limit, DefaultLimit))
  IN Returned(SelectSeq([i \in 1..Len(rows) |-> RecentPage(rows[i])], HasTitle))

RecentCall(now, limit, days) ==
  /\ pc = "idle" /\ req = NoRequest
  /\ req' = [op |-> "listRecent", now |-> now, limit |-> limit, days |-> days]
  /\ resp' = Outcome(getRecentPages(now, limit, days), <<"SelectRecentPages">>)
  /\ issued' = <<"SelectRecentPages">>
  /\ loc' = NoLocals
  /\ UNCHANGED <<configFile, db, block, collection, pc>>

(***************************************************************************)
(* getPage (tools/getPage.ts): one action for the function when it returns *)
(* without counting, and when it counts, one for the function up to the    *)
(* recursive query of countAllBlocks, one for each round of that query     *)
(* and one for the rest of the function.                                   *)
(***************************************************************************)
SummaryMaxBlocks == 10

FullMaxBlocks == 100

SummaryTextLength == 200

FullTextLength == 500

\* a cap that lets one block more through
CapReachedLate(maxBlocks, count) == maxBlocks # 0 /\ count > maxBlocks

\* options.maxBlocks && options.blockCount.count >= options.maxBlocks
CapReached(maxBlocks, count) == maxBlocks # 0 /\ count >= maxBlocks

\* getChildBlocks and the loop over its rows; blockCount.count is passed in
\* and handed back: [nodes |-> the BlockContent list, count |-> the counter,
\* queries |-> the statements handed to queryBlocks, in order]
RECURSIVE getChildBlocks(_, _, _, _, _)
RECURSIVE EmitRows(_, _, _, _, _, _)
getChildBlocks(parentId, currentDepth, maxDepth, options, count) ==
  IF DepthReached(currentDepth, maxDepth)
  THEN [nodes |-> <<>>, count |-> count, queries |-> <<>>]
  ELSE IF CapReached(options.maxBlocks, count)
  THEN [nodes |-> <<>>, count |-> count, queries |-> <<>>]
  ELSE [EmitRows(SelectChildBlocks(Read(block), parentId), currentDepth, maxDepth,
                 options, count, <<>>)
          EXCEPT !.queries = <<"SelectChildBlocks">> \o @]

EmitRows(rows, currentDepth, maxDepth, options, count, result) ==
  IF rows = <<>> \/ CapReached(options.maxBlocks, count)
  THEN [nodes |-> result, count |-> count, queries |-> <<>>]
  ELSE LET row == Head(rows)
           sub == getChildBlocks(row.id, currentDepth + 1, maxDepth, options,
                                 count + 1)
           content ==
             [id |-> row.id, type |-> row.type,
              text |-> truncateText(extractAllText(row.properties),
                                    options.maxTextLength),
              children |-> sub.nodes]
       IN [EmitRows(Tail(rows), currentDepth, maxDepth, options, sub.count,
                    Append(result, content))
             EXCEPT !.queries = sub.queries \o @]

\* a JS value is truthy
JTruthy(j) ==
  j.t \notin {"null", "undefined"} /\ j # JStr(<<>>) /\ j # JBool(FALSE)

parseSchema(schemaJson) ==
  IF ~Truthy(schemaJson) THEN JNull
  ELSE IF JsonParse(schemaJson).t = "error" THEN JNull
  ELSE JsonParse(schemaJson)

\* Object.entries of a value that is not null: the members of an object,
\* the elements of an array and the characters of a string under their
\* indices, nothing for a number or a boolean
ObjectEntries(j) ==
  CASE j.t = "obj" -> j.v
    [] j.t = "arr" -> [i \in 1..Len(j.v) |-> << <<HexDigits[i]>>, j.v[i] >>]
    [] j.t = "str" -> [i \in 1..Len(j.v) |-> << <<HexDigits[i]>>, JStr(<<j.v[i]>>) >>]
    [] OTHER -> <<>>

\* value.length > 0, where a value without a length compares false
HasLength(j) == j.t \in {"arr", "str"} /\ Len(j.v) > 0

\* the key a value becomes when it names a member: String(value)
KeyOf(j) ==
  CASE j.t = "str" -> j.v
    [] j.t = "null" -> <<"null">>
    [] OTHER -> <<"undefined">>

\* obj[key] = value: in place when the key is there, else at the end
SetMember(pairs, key, value) ==
  IF \E i \in 1..Len(pairs) : pairs[i][1] = key
  THEN [i \in 1..Len(pairs) |->
          IF pairs[i][1] = key THEN <<key, value>> ELSE pairs[i]]
  ELSE Append(pairs, <<key, value>>)

NullHasNoType == <<"Cannot read properties of null (reading 'type')">>

NullHasNoValue == <<"Cannot read properties of null (reading 'value')">>

MapIsNoFunction == <<"prop.options.map is not a function">>

NotIterable == <<"richText is not iterable">>

\* the body of formatSchemaForDisplay's loop: the entry of one property
DisplayEntry(prop) ==
  LET options == Member(prop, OptionsKey)
      type == <<TypeKey, Member(prop, TypeKey)>>
  IN IF prop.t = "null" THEN TypeError(NullHasNoType)
     ELSE IF ~(JTruthy(options) /\ HasLength(options)) THEN JObj(<<type>>)
     ELSE IF options.t # "arr" THEN TypeError(MapIsNoFunction)
     ELSE IF \E i \in 1..Len(options.v) : options.v[i].t = "null"
     THEN TypeError(NullHasNoValue)
     ELSE JObj(<<type, <<OptionsKey,
                  JArr([i \in 1..Len(options.v) |->
                          Member(options.v[i], ValueKey)])>> >>)

RECURSIVE DisplayEntries(_, _)
DisplayEntries(entries, result) ==
  IF entries = <<>> THEN JObj(result)
  ELSE LET prop == Head(entries)[2]
           entry == DisplayEntry(prop)
       IN IF entry.t = "throw" THEN entry
          ELSE DisplayEntries(Tail(entries),
                 SetMember(result, KeyOf(Member(prop, NameKey)), entry))

formatSchemaForDisplay(schema) ==
  IF ~JTruthy(schema) THEN JNull
  ELSE DisplayEntries(ObjectEntries(schema), <<>>)

\* the references of one segment of a relation
SegmentRelationIds(segment) ==
  IF segment.t # "arr" \/ Len(segment.v) < 2 THEN <<>>
  ELSE IF segment.v[2].t # "arr" THEN <<>>
  ELSE LET annotations == segment.v[2].v
           refs == SelectSeq(annotations,
                     LAMBDA a : /\ a.t = "arr" /\ Len(a.v) >= 2
                                /\ a.v[1] = JStr(<<"p">>) /\ JTruthy(a.v[2]))
       IN [i \in 1..Len(refs) |-> refs[i].v[2]]

extractRelationIds(richText) ==
  CASE richText.t = "arr" ->
         JArr(Concat([i \in 1..Len(richText.v) |->
                        SegmentRelationIds(richText.v[i])]))
    [] richText.t = "str" -> JArr(<<>>)
    [] OTHER -> TypeError(NotIterable)

DecimalDigits == {"0", "1", "2", "3", "4", "5", "6", "7", "8", "9"}

DigitValue(ch) == CHOOSE n \in 0..9 : HexDigits[n + 1] = ch

\* parseFloat of a trimmed text, for texts that hold no sign, point or
\* exponent: the number its leading digits spell, NaN when it has none
RECURSIVE LeadingDigits(_, _)
LeadingDigits(text, n) ==
  IF text = <<>> \/ Head(text) \notin DecimalDigits THEN n
  ELSE LeadingDigits(Tail(text), 10 * n + DigitValue(Head(text)))

parseFloat(text) ==
  IF text = <<>> \/ Head(text) \notin DecimalDigits THEN JNaN
  ELSE JNum(LeadingDigits(text, 0))

\* String.prototype.split(',')
RECURSIVE Split(_, _)
Split(text, piece) ==
  IF text = <<>> THEN <<piece>>
  ELSE IF Head(text) = "," THEN <<piece>> \o Split(Tail(text), <<>>)
  ELSE Split(Tail(text), Append(piece, Head(text)))

\* the switch of parseProperties
PropertyValue(propType, rawValue) ==
  LET text == extractTextFromRichText(rawValue)
  IN CASE propType = JStr(<<"checkbox">>) -> JBool(text = <<"Yes">>)
       [] propType = JStr(<<"number">>) ->
            IF text # <<>> THEN parseFloat(text) ELSE JNull
       [] propType = JStr(<<"multi_select">>) ->
            IF text # <<>>
            THEN JArr([i \in 1..Len(Split(text, <<>>)) |->
                         JStr(Trim(Split(text, <<>>)[i]))])
            ELSE JArr(<<>>)
       [] propType = JStr(<<"relation">>) -> extractRelationIds(rawValue)
       [] OTHER -> JStr(text)

\* the loop of parseProperties; a property that throws ends it
RECURSIVE ProjectEntries(_, _, _)
ProjectEntries(entries, schema, result) ==
  IF entries = <<>> THEN JObj(result)
  ELSE LET propId == Head(entries)[1]
           rawValue == Head(entries)[2]
           schemaInfo == Member(schema, propId)
           name == Member(schemaInfo, NameKey)
           type == Member(schemaInfo, TypeKey)
           propName == IF JTruthy(name) THEN name ELSE JStr(propId)
           propType == IF JTruthy(type) THEN type ELSE JStr(<<"unknown">>)
           value == PropertyValue(propType, rawValue)
       IN IF ~JTruthy(rawValue)
          THEN ProjectEntries(Tail(entries), schema, result)
          ELSE IF value.t = "throw" THEN value
          ELSE ProjectEntries(Tail(entries), schema,
                 SetMember(result, KeyOf(propName),
                   JObj(<< <<NameKey, propName>>, <<TypeKey, propType>>,
                           <<ValueKey, value>> >>)))

\* the try block of parseProperties; its catch returns null
parseProperties(propertiesJson, schema) ==
  IF ~Truthy(propertiesJson) THEN JNull
  ELSE LET rawProperties == JsonParse(propertiesJson)
           result == ProjectEntries(ObjectEntries(rawProperties), schema, <<>>)
       IN IF rawProperties.t \in {"error", "null"} THEN JNull
          ELSE IF result.t = "throw" THEN JNull
          ELSE result

PageNotFound(pageId) == <<"Page not found: ">> \o pageId

\* a reference taken from the collection_id field alone
CollectionIdField(page) ==
  IF Truthy(page.collection_id) THEN page.collection_id ELSE NULL

\* page.collection_id || (page.parent_table === 'collection' ? page.parent_id : null)
CollectionIdOf(page) ==
  IF Truthy(page.collection_id) THEN page.collection_id
  ELSE IF page.parent_table = <<"collection">> THEN page.parent_id
  ELSE NULL

\* the result object before the summary and database fields are set
PageContent(page, content) ==
  [id |-> page.id, title |-> extractTitle(page.properties), type |-> page.type,
   lastEdited |-> formatTimestamp(page.last_edited_time),
   url |-> createNotionUrl(page.id), content |-> content,
   summary |-> Absent, totalBlocks |-> Absent, hint |-> Absent,
   database |-> Absent, properties |-> Absent]

\* if (summary) { ... }
WithSummary(result, blockCount, totalBlocks) ==
  [result EXCEPT
     !.summary = Given(TRUE),
     !.totalBlocks = Given(totalBlocks),
     !.hint = IF blockCount < totalBlocks
              THEN Given([shown |-> blockCount, of |-> totalBlocks])
              ELSE Absent]

\* if (collectionId) { ... }
\* a TypeError of formatSchemaForDisplay leaves getPage through this block
WithDatabase(result, page) ==
  LET collectionId == CollectionIdOf(page)
      found == queryCollection(Read(collection), collectionId)
      schema == parseSchema(found.schema)
      display == formatSchemaForDisplay(schema)
  IN IF ~Truthy(collectionId) \/ found = NoRow THEN result
     ELSE IF display.t = "throw" THEN display
     ELSE [result EXCEPT
             !.database = Given(
                [collectionId |-> found.id,
                 collectionName |-> extractTitle(found.name),
                 schema |-> display]),
             !.properties = Given(parseProperties(page.properties, schema))]

\* a function ends: it returns its value, or the TypeError goes to its caller
Completed(value) ==
  IF "t" \in DOMAIN value /\ value.t = "throw" THEN Thrown(value.v)
  ELSE Returned(value)

\* the statement of the collection lookup, when getPage makes one
DatabaseQueries(page) ==
  IF Truthy(CollectionIdOf(page)) THEN <<"queryCollection">> ELSE <<>>

GetPageCall(pageId, depth, summary, maxBlocks) ==
  /\ pc = "idle" /\ req = NoRequest
  /\ req' = [op |-> "getPage", pageId |-> pageId, depth |-> depth,
             summary |-> summary, maxBlocks |-> maxBlocks]
  /\ LET summaryMode == ArgOr(summary, TRUE)
         options ==
           [maxBlocks |-> ArgOr(maxBlocks, IF summaryMode THEN SummaryMaxBlocks
                                           ELSE FullMaxBlocks),
            maxTextLength |-> IF summaryMode THEN SummaryTextLength
                              ELSE FullTextLength]
         page == SelectBlockById(Read(block), pageId, StripDashes(pageId))
         walk == getChildBlocks(page.id, 0, ArgOr(depth, DefaultDepth), options, 0)
     IN IF BlankArg(pageId)
        THEN /\ pc' = "idle" /\ loc' = NoLocals
             /\ resp' = Thrown(PageIdRequired)
             /\ issued' = <<>>
        ELSE IF QueryThrows
        THEN /\ pc' = "idle" /\ loc' = NoLocals
             /\ resp' = Thrown(QueryError)
             /\ issued' = <<"SelectBlockById">>
        ELSE IF page = NoRow
        THEN /\ pc' = "idle" /\ loc' = NoLocals
             /\ resp' = Thrown(PageNotFound(pageId))
             /\ issued' = <<"SelectBlockById">>
        ELSE IF summaryMode
        THEN /\ pc' = "count"
             /\ loc' = [fn |-> "getPage", page |-> page,
                        result |-> PageContent(page, walk.nodes),
                        blockCount |-> walk.count,
                        level |-> SeedChildren(Read(block), page.id), count |-> 0]
             /\ resp' = NoResponse
             /\ issued' = <<"SelectBlockById">> \o walk.queries
                            \o <<"countAllBlocks">>
        ELSE /\ pc' = "idle"
             /\ loc' = [fn |-> "getPage", blockCount |-> walk.count]
             /\ resp' = Completed(WithDatabase(PageContent(page, walk.nodes), page))
             /\ issued' = <<"SelectBlockById">> \o walk.queries
                            \o DatabaseQueries(page)
  /\ UNCHANGED <<configFile, db, block, collection>>

\* Every round of the query yields each row at most once, so once more rows
\* are counted than the table has, a row has come up in two rounds: the
\* rounds repeat and the query never ends.  The model leaves such a query
\* where it is.
CountDiverges == loc.count > Len(block)

\* one round of the recursive query of countAllBlocks
CountRound ==
  /\ pc = "count"
  /\ loc.level # {}
  /\ ~CountDiverges
  /\ loc' = [loc EXCEPT !.count = @ + Cardinality(loc.level),
                        !.level = JoinChildren(Read(block), loc.level)]
  /\ UNCHANGED <<configFile, db, block, collection, pc, req, resp, issued>>

\* the query is done: SELECT COUNT(*), and getPage from there to its return
CountDone ==
  /\ pc = "count"
  /\ loc.level = {}
  /\ pc' = "idle"
  /\ resp' = Completed(WithDatabase(
                WithSummary(loc.result, loc.blockCount, loc.count), loc.page))
  /\ issued' = issued \o DatabaseQueries(loc.page)
  /\ UNCHANGED <<configFile, db, block, collection, req, loc>>

(***************************************************************************)
(* The stores of the model.                                                *)
(***************************************************************************)
TitledT == Stringify(TitledDoc(<< <<"T">> >>))

\* an instant of the model's epoch
Instant(day, ms) == <<day, ms>>

PlainRow(k) ==
  BlockRow(Undashed(k), IF k % 2 = 1 THEN "page" ELSE "text", TitledT, NULL,
           NB - k, Instant(41 - k, 0), 1, NULL, NULL)

\* the parent references row k can hold in a store for the upward walk from
\* block 1: none, dangling, the next row, or a row at or before k (a cycle),
\* each in either form.  Up to the naming of the rows these are all chains.
ParentRefs(k) ==
  {NULL, MissingId}
    \cup {Undashed(j) : j \in 1..NB \cap 1..(k + 1)}
    \cup {Dashed(j) : j \in 1..NB \cap 1..(k + 1)}

ParentMaps == {par \in [1..NB -> BlockForms \cup {NULL, MissingId}] :
                 \A k \in 1..NB : par[k] \in ParentRefs(k)}

\* stores for the upward walk: identifiers stored all dashed or all undashed,
\* at most one tombstone
ParentStores ==
  { [k \in 1..NB |->
       [PlainRow(k) EXCEPT !.id = IF dashed THEN Dashed(k) ELSE Undashed(k),
                           !.parent_id = par[k],
                           !.alive = IF k = dead THEN 0 ELSE 1]] :
      par \in ParentMaps, dashed \in BOOLEAN, dead \in 0..NB }

\* the walk starts at block 1, named in either form, or at no block
StartArgs == {Undashed(1), Dashed(1), MissingId, NULL, <<" ">>}

IdOf(k, dashed) == IF dashed THEN Dashed(k) ELSE Undashed(k)

\* forests: the parent of a row is an earlier row, or none
Forests == {up \in [1..NB -> 0..NB] : \A k \in 1..NB : up[k] < k}

\* stores that are forests: identifiers stored all dashed or all undashed,
\* parent references written all dashed or all undashed, at most one tombstone
TreeStores ==
  { [k \in 1..NB |->
       [PlainRow(k) EXCEPT
          !.id = IdOf(k, dashed),
          !.parent_id = IF up[k] = 0 THEN NULL ELSE IdOf(up[k], refDashed),
          !.alive = IF k = dead THEN 0 ELSE 1]] :
      up \in Forests, dashed \in BOOLEAN, refDashed \in BOOLEAN,
      dead \in 0..NB }

\* the instant of the requests
Now == Instant(40, 7)

InitParents ==
  /\ configFile = NoFiles
  /\ block \in ParentStores
  /\ collection = <<>>
  /\ pc = "idle"
  /\ req = NoRequest
  /\ loc = NoLocals
  /\ resp = NoResponse
  /\ issued = <<>>
  /\ db = "ok"

NextParents ==
  \/ \E pageId \in StartArgs : ParentsCall(pageId)
  \/ ParentsStep
  \/ Deliver

SpecParents == InitParents /\ [][NextParents]_vars

BlankTitled == Stringify(TitledDoc(<< <<" ">> >>))

\* the last-modified instants of the stores for listRecent: none, the cutoff
\* of the default window and the millisecond after it, and the millisecond
\* after the cutoff of a window of one day
EditTimes == {NullTime, Instant(10, 7), Instant(10, 8), Instant(39, 8)}

\* stores for listRecent: any last-modified instants, titles present or
\* blank, the first row possibly a tombstone or not a page
RecentStores ==
  { [k \in 1..NB |->
       [PlainRow(k) EXCEPT
          !.type = IF k = odd /\ how = "text" THEN "text" ELSE "page",
          !.alive = IF k = odd /\ how = "dead" THEN 0 ELSE 1,
          !.properties = props[k],
          !.last_edited_time = edited[k]]] :
      edited \in [1..NB -> EditTimes],
      props \in [1..NB -> {TitledT, BlankTitled}],
      odd \in 0..1, how \in {"text", "dead"} }

InitRecent ==
  /\ configFile = NoFiles
  /\ block \in RecentStores
  /\ collection = <<>>
  /\ pc = "idle"
  /\ req = NoRequest
  /\ loc = NoLocals
  /\ resp = NoResponse
  /\ issued = <<>>
  /\ db = "ok"

NextRecent ==
  \/ \E limit \in {Absent, Given(0), Given(1), Given(2)} :
       \E days \in {Absent, Given(1)} : RecentCall(Now, limit, days)
  \/ Deliver

SpecRecent == InitRecent /\ [][NextRecent]_vars

\* the identifier of the one collection, in either form
CollectionForms == {Undashed(NB + 1), Dashed(NB + 1)}

\* collection tables: one collection, stored dashed or undashed, alive or not
CollectionTables ==
  { << CollectionRow(id, Stringify(RichText(<< <<"D">> >>)), NULL, alive) >> :
      id \in CollectionForms, alive \in {0, 1} }

\* stores for the lookups: a forest whose first row may refer to the
\* collection, by its collection_id, in either form
LookupStores ==
  { [k \in 1..NB |->
       [PlainRow(k) EXCEPT
          !.id = IdOf(k, dashed),
          !.parent_id = IF up[k] = 0 THEN NULL ELSE IdOf(up[k], refDashed),
          !.alive = IF k = dead THEN 0 ELSE 1,
          !.collection_id = IF k = 1 THEN ref ELSE NULL]] :
      up \in Forests, dashed \in BOOLEAN, refDashed \in BOOLEAN,
      dead \in 0..NB, ref \in CollectionForms \cup {NULL} }

InitLookup ==
  /\ configFile = NoFiles
  /\ block \in LookupStores
  /\ collection \in CollectionTables
  /\ pc = "idle"
  /\ req = NoRequest
  /\ loc = NoLocals
  /\ resp = NoResponse
  /\ issued = <<>>
  /\ db = "ok"

NextLookup ==
  \/ \E pageId \in BlockForms \cup {MissingId} :
       GetPageCall(pageId, Absent, Given(FALSE), Absent)
  \/ \E pageId \in BlockForms \cup {MissingId} : ParentsCall(pageId)
  \/ ParentsStep
  \/ Deliver

SpecLookup == InitLookup /\ [][NextLookup]_vars

\* stores for the database fields of getPage: the first row refers to a
\* collection by its collection_id, by its parent, by both or not at all, to
\* the collection of the table or to none; the other rows are its children,
\* one of them possibly a tombstone
DatabaseStores ==
  { [k \in 1..NB |->
       IF k = 1
       THEN [PlainRow(1) EXCEPT !.collection_id = field,
                                !.parent_table = table,
                                !.parent_id = parent]
       ELSE [PlainRow(k) EXCEPT !.parent_id = Undashed(1),
                                !.alive = IF k = dead THEN 0 ELSE 1]] :
      field \in {NULL, <<>>, Undashed(NB + 1), MissingId},
      table \in {NULL, <<"collection">>, <<"block">>},
      parent \in {NULL, Dashed(NB + 1), MissingId},
      dead \in 1..NB }

InitDatabase ==
  /\ configFile = NoFiles
  /\ block \in DatabaseStores
  /\ collection \in CollectionTables \cup {<<>>}
  /\ pc = "idle"
  /\ req = NoRequest
  /\ loc = NoLocals
  /\ resp = NoResponse
  /\ issued = <<>>
  /\ db = "ok"

NextDatabase ==
  \/ \E pageId \in {Undashed(1), Dashed(1)} :
       \E summary \in {Absent, Given(FALSE)} :
         GetPageCall(pageId, Absent, summary, Absent)
  \/ CountRound
  \/ CountDone
  \/ Deliver

SpecDatabase == InitDatabase /\ [][NextDatabase]_vars

\* a property map without a title, and without the letter t
UntitledX == Stringify(JObj(<< <<<<"x">>, RichText(<< <<"b">> >>)>> >>))

\* stores for search: pages and other blocks, last modified never, early or
\* late, the first two rows with either property map
SearchStores ==
  { [k \in 1..NB |->
       [PlainRow(k) EXCEPT !.type = type[k],
                           !.last_edited_time = edited[k],
                           !.properties = props[k]]] :
      type \in [1..NB -> {"page", "text"}],
      edited \in [1..NB -> {NullTime, Instant(1, 0), Instant(2, 0)}],
      props \in {f \in [1..NB -> {TitledT, UntitledX}] :
                   \A k \in 3..NB : f[k] = TitledT} }

InitSearch ==
  /\ configFile = NoFiles
  /\ block \in SearchStores
  /\ collection = <<>>
  /\ pc = "idle"
  /\ req = NoRequest
  /\ loc = NoLocals
  /\ resp = NoResponse
  /\ issued = <<>>
  /\ db = "ok"

NextSearch ==
  \/ \E query \in {<<"t">>, <<"_">>} :
       \E type \in {Absent, Given("all")} :
         \E limit \in {Absent, Given(0), Given(1), Given(2)} :
           SearchCall(query, type, limit)
  \/ Deliver

SpecSearch == InitSearch /\ [][NextSearch]_vars

Init ==
  /\ configFile = NoFiles
  /\ block \in TreeStores
  /\ collection = <<>>
  /\ pc = "idle"
  /\ req = NoRequest
  /\ loc = NoLocals
  /\ resp = NoResponse
  /\ issued = <<>>
  /\ db = "ok"

Next ==
  \/ \E query \in {<<"t">>, <<"T", "%">>, <<" ">>, <<>>, NULL} :
       \E type \in {Absent, Given("all")} :
         \E limit \in {Absent, Given(1)} : SearchCall(query, type, limit)
  \/ \E limit \in {Absent, Given(1)} :
       \E days \in {Absent, Given(1)} : RecentCall(Now, limit, days)
  \/ \E pageId \in PageIdArgs :
       \E depth \in {Absent, Given(1)} :
         \E summary \in {Absent, Given(FALSE)} :
           \E maxBlocks \in {Absent, Given(0), Given(1)} :
             GetPageCall(pageId, depth, summary, maxBlocks)
  \/ CountRound
  \/ CountDone
  \/ \E pageId \in PageIdArgs : ParentsCall(pageId)
  \/ ParentsStep
  \/ \E pageId \in PageIdArgs :
       \E depth \in {Absent, Given(0), Given(1)} : ChildrenCall(pageId, depth)
  \/ Deliver

Spec == Init /\ [][Next]_vars

\* the rows of a store that cannot be read reach no operation: one store
\* stands for them all
UnreadStores ==
  {tbl \in TreeStores :
     \A k \in 1..NB : /\ tbl[k].alive = 1 /\ tbl[k].id = Undashed(k)
                      /\ tbl[k].parent_id = NULL}

\* the handler over a store whose sqlite3 process works or fails, with tool
\* names it does not know
InitHandler ==
  /\ configFile = NoFiles
  /\ \/ db = "ok" /\ block \in TreeStores
     \/ db \in {"no such table", "failed"} /\ block \in UnreadStores
  /\ collection = <<>>
  /\ pc = "idle"
  /\ req = NoRequest
  /\ loc = NoLocals
  /\ resp = NoResponse
  /\ issued = <<>>

NextHandler ==
  \/ Next
  \/ UnknownCall(<<"notion_local_delete">>)

SpecHandler == InitHandler /\ [][NextHandler]_vars

(***************************************************************************)
(* The parent relation of a store, by rows: what the walk is meant to      *)
(* follow, stated without the walk.                                        *)
(***************************************************************************)
\* the alive rows an identifier names, whatever its dashes
RowsNamed(id) ==
  {k \in 1..Len(block) :
     block[k].alive = 1 /\ StripDashes(block[k].id) = StripDashes(id)}

\* the alive row an identifier names, 0 when it names none
RowNamed(id) ==
  IF Truthy(id) /\ RowsNamed(id) # {} THEN Min(RowsNamed(id)) ELSE 0

\* row k, its parent, its grandparent, ... for at most n rows
RECURSIVE ChainFrom(_, _)
ChainFrom(k, n) ==
  IF k = 0 \/ n = 0 THEN <<>>
  ELSE <<k>> \o ChainFrom(RowNamed(block[k].parent_id), n - 1)

\* the chain from an identifier ends (at a root, a dangling or a tombstoned
\* reference) without coming back to a row
AcyclicFrom(id) == Len(ChainFrom(RowNamed(id), Len(block) + 1)) <= Len(block)

ParentsReturned ==
  pc = "idle" /\ req.op = "getParents" /\ resp.kind = "ok"

ReturnedIds == [i \in 1..Len(resp.value) |-> resp.value[i].id]

\* C2: getParents terminates on every finite store, cyclic parent chains
\* included: a walk reads the store once per identifier it has not visited
\* before, so it makes at most NB + 1 reads (pageId and one parent reference
\* per row); every iteration that does not return makes one such read.
C2_ParentsTerminates ==
  (req.op = "getParents" /\ loc.fn = "getParents") =>
     /\ loc.reads <= NB + 1
     /\ Cardinality(loc.visited) = loc.reads

\* a walk that went round a cycle and returned
C2_Witness ==
  /\ ParentsReturned
  /\ ~AcyclicFrom(req.pageId)
  /\ loc.reads >= 2

\* C3: the block pageId resolves to never appears in the output of
\* getParents, whatever the dashes of pageId and of the parent references.
C3_StartExcluded ==
  ParentsReturned =>
    \A i \in 1..Len(resp.value) :
      \A k \in RowsNamed(req.pageId) : resp.value[i].id # block[k].id

\* a start block stored dashed that is its own parent, named without the
\* dash: the walk returns the start block as its own ancestor
C3_StartReturned ==
  /\ ParentsReturned
  /\ req.pageId = Undashed(1)
  /\ block[1].id = Dashed(1) /\ block[1].alive = 1
  /\ block[1].parent_id = Dashed(1)
  /\ ReturnedIds = <<Dashed(1)>>

\* C4: the output of getParents never contains the same block twice.
C4_NoBlockTwice ==
  ParentsReturned =>
    \A i, j \in 1..Len(resp.value) :
      i # j => resp.value[i].id # resp.value[j].id

\* a parent that refers to itself in the other form than its child does is
\* returned twice
C4_ReturnedTwice ==
  /\ ParentsReturned
  /\ block[1].parent_id = Undashed(2)
  /\ block[2].parent_id = Dashed(2)
  /\ Len(resp.value) = 2
  /\ resp.value[1].id = block[2].id
  /\ resp.value[2].id = block[2].id

\* C5: on an acyclic parent chain getParents raises no error and returns
\* exactly the proper ancestors of the start block, immediate parent first,
\* up to the first parent reference that is absent, dangling or tombstoned.
C5_AcyclicAncestors ==
  (pc = "idle" /\ req.op = "getParents" /\ ~BlankArg(req.pageId)
     /\ AcyclicFrom(req.pageId)) =>
    /\ resp.kind = "ok"
    /\ LET chain == ChainFrom(RowNamed(req.pageId), Len(block))
       IN ReturnedIds = [i \in 1..(Len(chain) - 1) |-> block[chain[i + 1]].id]

\* two ancestors returned in order, the walk ending at a dangling reference
C5_Witness ==
  /\ ParentsReturned
  /\ AcyclicFrom(req.pageId)
  /\ Len(resp.value) = 2
  /\ resp.value[1].id = block[2].id
  /\ resp.value[2].id = block[3].id
  /\ block[3].parent_id = MissingId

(***************************************************************************)
(* Trees of results.                                                       *)
(***************************************************************************)
\* the number of nodes of a forest of BlockContent or HierarchyNode records
RECURSIVE CountNodes(_)
CountNodes(nodes) ==
  IF nodes = <<>> THEN 0
  ELSE 1 + CountNodes(Head(nodes).children) + CountNodes(Tail(nodes))

\* the identifiers of its nodes
RECURSIVE TreeIds(_)
TreeIds(nodes) ==
  IF nodes = <<>> THEN {}
  ELSE {Head(nodes).id} \cup TreeIds(Head(nodes).children)
         \cup TreeIds(Tail(nodes))

AliveIds == {block[k].id : k \in {i \in 1..Len(block) : block[i].alive = 1}}

\* the alive rows below an identifier through alive rows, by parent_id
RECURSIVE AliveBelow(_, _)
AliveBelow(ids, n) ==
  LET rows == {k \in 1..Len(block) :
                 block[k].alive = 1 /\ block[k].parent_id \in ids}
  IN IF n = 0 \/ rows = {} THEN {}
     ELSE rows \cup AliveBelow({block[k].id : k \in rows}, n - 1)

Answered(op) == pc = "idle" /\ req.op = op /\ resp.kind = "ok"

\* C1: the number of blocks getPage emits, over the whole content tree, is at
\* most the effective cap: maxBlocks when given (any integer >= 0), else 10
\* in summary mode and 100 in full mode.
C1_WithinCap ==
  (Answered("getPage")
     /\ (req.maxBlocks # Absent => req.maxBlocks[1] >= 0)) =>
    CountNodes(resp.value.content)
      <= ArgOr(req.maxBlocks,
               IF ArgOr(req.summary, TRUE) THEN SummaryMaxBlocks
               ELSE FullMaxBlocks)

\* getPage called with maxBlocks = 0 on a page with an alive child emits it
C1_ZeroCapOverrun ==
  /\ Answered("getPage")
  /\ req.maxBlocks = Given(0)
  /\ CountNodes(resp.value.content) >= 1

\* C6: every block identifier in a result of search, listRecent, getPage,
\* getParents or getChildren is the identifier of an alive row, and
\* totalBlocks counts no more than the alive rows below the page.
C6_OnlyAliveBlocks ==
  /\ (Answered("search") \/ Answered("listRecent") \/ Answered("getParents")) =>
        \A i \in 1..Len(resp.value) : resp.value[i].id \in AliveIds
  /\ Answered("getChildren") => TreeIds(resp.value) \subseteq AliveIds
  /\ Answered("getPage") =>
        /\ resp.value.id \in AliveIds
        /\ TreeIds(resp.value.content) \subseteq AliveIds
        /\ resp.value.totalBlocks # Absent =>
              resp.value.totalBlocks[1]
                <= Cardinality(AliveBelow({resp.value.id}, Len(block)))

\* getPage answered for a page that has an alive and a tombstoned child
C6_Witness ==
  /\ Answered("getPage")
  /\ resp.value.totalBlocks = Given(1)
  /\ Len(resp.value.content) = 1
  /\ \E k \in 1..Len(block) :
       block[k].alive = 0 /\ block[k].parent_id = resp.value.id

\* C8: getChildren returns the same forest for any two pageId strings that
\* are equal after removing all dashes.
C8_ChildrenDashInsensitive ==
  Answered("getChildren") =>
    \A other \in BlockForms :
      StripDashes(other) = StripDashes(req.pageId) =>
        getChildren(other, req.depth) = resp

\* getChildren finds child pages under the form the parent references are
\* written in and none under the other form
C8_FormsDiffer ==
  /\ Answered("getChildren")
  /\ resp.value # <<>>
  /\ \E other \in BlockForms :
       /\ StripDashes(other) = StripDashes(req.pageId)
       /\ getChildren(other, req.depth) = Returned(<<>>)

(***************************************************************************)
(* Argument checks.                                                        *)
(***************************************************************************)
\* an argument that is missing, empty or made of whitespace only
IsBlank(s) == s = NULL \/ \A i \in 1..Len(s) : s[i] \in Whitespace

\* C11: search with a missing, empty or whitespace-only query, and getPage,
\* getParents and getChildren with such a pageId, fail with the error of
\* their argument check, and no statement has been issued to the store.
C11_BlankArgRejected ==
  /\ (req.op \in {"getPage", "getParents", "getChildren"}
        /\ IsBlank(req.pageId)) =>
       pc = "idle" /\ resp = Thrown(PageIdRequired) /\ issued = <<>>
  /\ (req.op = "search" /\ IsBlank(req.query)) =>
       pc = "idle" /\ resp = Thrown(QueryRequired) /\ issued = <<>>

\* a whitespace-only query has been refused
C11_Witness ==
  /\ req.op = "search"
  /\ req.query = <<" ">>
  /\ resp = Thrown(QueryRequired)
  /\ issued = <<>>

(***************************************************************************)
(* search, stated on the rows of the store.                                *)
(***************************************************************************)
\* the row that carries the identifier of the i-th result
ResultRow(i) ==
  block[CHOOSE k \in 1..Len(block) : block[k].id = resp.value[i].id]

\* the results are in descending last-modified order from position lo to hi
DescendingFrom(lo, hi) ==
  \A i, j \in lo..hi :
    i < j => ~Newer(ResultRow(j).last_edited_time, ResultRow(i).last_edited_time)

\* C12: with scope "page" and limit n, search returns at most n results,
\* each of them a page, in descending last-modified order.
C12_PageScope ==
  (Answered("search") /\ ArgOr(req.type, "page") = "page") =>
    /\ Len(resp.value) <= ArgOr(req.limit, DefaultLimit)
    /\ \A i \in 1..Len(resp.value) :
         resp.value[i].type = "page" /\ ResultRow(i).type = "page"
    /\ DescendingFrom(1, Len(resp.value))

\* two pages returned, the later modified first, while a block that is not a
\* page has the matching properties too
C12_Witness ==
  /\ Answered("search") /\ req.type = Absent /\ req.limit = Given(2)
  /\ Len(resp.value) = 2
  /\ ResultRow(1).last_edited_time # NullTime
  /\ ResultRow(2).last_edited_time # NullTime
  /\ Later(ResultRow(1).last_edited_time, ResultRow(2).last_edited_time)
  /\ \E k \in 1..Len(block) :
       block[k].type = "text" /\ block[k].properties = ResultRow(1).properties

\* the alive pages whose properties match %query%
MatchingPages ==
  {k \in 1..Len(block) :
     /\ block[k].alive = 1 /\ block[k].type = "page"
     /\ block[k].properties # NULL
     /\ Like(block[k].properties, <<"%">> \o req.query \o <<"%">>)}

\* C13: with scope "all", search returns at most limit results, the pages
\* before the other blocks, each group in descending last-modified order,
\* and a block that is not a page only when fewer than limit pages match.
C13_AllScope ==
  (Answered("search") /\ ArgOr(req.type, "page") = "all") =>
    LET n == Len(resp.value)
        pages == Cardinality({i \in 1..n : resp.value[i].type = "page"})
    IN /\ n <= ArgOr(req.limit, DefaultLimit)
       /\ \A i \in 1..n : resp.value[i].type = ResultRow(i).type
       /\ \A i \in 1..n : (i <= pages) <=> (resp.value[i].type = "page")
       /\ DescendingFrom(1, pages)
       /\ DescendingFrom(pages + 1, n)
       /\ pages < n =>
            Cardinality(MatchingPages) < ArgOr(req.limit, DefaultLimit)

\* a page is returned before a block that is not a page and was modified
\* later
C13_Witness ==
  /\ Answered("search") /\ req.type = Given("all")
  /\ Len(resp.value) = 2
  /\ resp.value[1].type = "page" /\ resp.value[2].type = "text"
  /\ ResultRow(1).last_edited_time # NullTime
  /\ ResultRow(2).last_edited_time # NullTime
  /\ Later(ResultRow(2).last_edited_time, ResultRow(1).last_edited_time)

\* a text without regard to the case of its letters
Folded(text) == [i \in 1..Len(text) |-> Fold(text[i])]

\* part is a contiguous substring of text
Contains(text, part) ==
  \E at \in 0..(Len(text) - Len(part)) :
    SubSeq(text, at + 1, at + Len(part)) = part

\* C14: every block search returns has a property blob that contains the
\* query as a contiguous substring, letter case apart, whatever the
\* characters of the query.
C14_SubstringMatch ==
  Answered("search") =>
    \A i \in 1..Len(resp.value) :
      /\ ResultRow(i).properties # NULL
      /\ Contains(Folded(ResultRow(i).properties), Folded(req.query))

\* the query _ returns a block whose property blob has no underscore
C14_WildcardMatch ==
  /\ Answered("search")
  /\ req.query = <<"_">>
  /\ \E i \in 1..Len(resp.value) :
       ~Contains(ResultRow(i).properties, <<"_">>)

(***************************************************************************)
(* getPage, stated on the rows of the store.                               *)
(***************************************************************************)
\* C15: when no alive block carries the requested identifier (a tombstoned
\* one may), getPage fails with an error whose message contains pageId, it
\* has issued the page lookup and no other statement, and it returns no
\* page.
C15_PageNotFound ==
  (req.op = "getPage" /\ ~IsBlank(req.pageId) /\ RowsNamed(req.pageId) = {}) =>
    /\ pc = "idle"
    /\ resp.kind = "error"
    /\ Contains(resp.message, req.pageId)
    /\ issued = <<"SelectBlockById">>

\* getPage has failed for the identifier of a tombstoned block that has an
\* alive child
C15_Witness ==
  /\ req.op = "getPage" /\ resp.kind = "error"
  /\ \E k, c \in 1..Len(block) :
       /\ block[k].alive = 0 /\ StripDashes(block[k].id) = StripDashes(req.pageId)
       /\ block[c].alive = 1 /\ block[c].parent_id = block[k].id

\* C16: in summary mode totalBlocks is the number of alive rows below the
\* page through alive rows (by parent_id), whatever depth and cap, and hint is
\* present exactly when fewer blocks were emitted than that; in full mode
\* summary, totalBlocks and hint are all absent.
C16_TotalAndHint ==
  Answered("getPage") =>
    LET below == Cardinality(AliveBelow({resp.value.id}, Len(block)))
    IN IF ArgOr(req.summary, TRUE)
       THEN /\ resp.value.summary = Given(TRUE)
            /\ resp.value.totalBlocks = Given(below)
            /\ (resp.value.hint # Absent)
                 <=> (CountNodes(resp.value.content) < below)
       ELSE /\ resp.value.summary = Absent
            /\ resp.value.totalBlocks = Absent
            /\ resp.value.hint = Absent

\* a page with a child and a grandchild, capped at one block: two counted,
\* one emitted, hint present
C16_Witness ==
  /\ Answered("getPage")
  /\ req.maxBlocks = Given(1)
  /\ resp.value.totalBlocks = Given(2)
  /\ CountNodes(resp.value.content) = 1
  /\ resp.value.hint # Absent

(***************************************************************************)
(* listRecent, stated on the rows of the store.                            *)
(***************************************************************************)
\* now - windowDays * 86400000 ms
RequestCutoff == <<req.now[1] - ArgOr(req.days, DefaultDays), req.now[2]>>

\* the row that carries an identifier
RowOf(id) == CHOOSE k \in 1..Len(block) : block[k].id = id

\* the alive pages modified after the cutoff
Qualifying ==
  {k \in 1..Len(block) :
     /\ block[k].type = "page" /\ block[k].alive = 1
     /\ block[k].last_edited_time # NullTime
     /\ Later(block[k].last_edited_time, RequestCutoff)}

Titled(k) == extractTitle(block[k].properties) # <<>>

\* C9: listRecent returns no page whose last-modified instant is NULL or is
\* at or before the cutoff, and no page whose extracted title is empty.
C9_RecentAndTitled ==
  Answered("listRecent") =>
    \A i \in 1..Len(resp.value) :
      LET row == block[RowOf(resp.value[i].id)]
      IN /\ row.last_edited_time # NullTime
         /\ Later(row.last_edited_time, RequestCutoff)
         /\ extractTitle(row.properties) # <<>>
         /\ resp.value[i].title # <<>>

\* a page is returned while a titled alive page sits exactly at the cutoff
C9_Witness ==
  /\ Answered("listRecent")
  /\ Len(resp.value) >= 1
  /\ \E k \in 1..Len(block) :
       /\ block[k].type = "page" /\ block[k].alive = 1 /\ Titled(k)
       /\ block[k].last_edited_time = RequestCutoff

\* C10: the result of listRecent is the titled rows among the first limit
\* qualifying rows in descending last-modified order, in that order: some
\* set of min(limit, number of qualifying rows) qualifying rows, none older
\* than a qualifying row outside it, has exactly its titled rows returned,
\* newest first; so at most limit are returned and no titled row from beyond
\* the limit replaces a dropped one.
C10_LimitThenFilter ==
  Answered("listRecent") =>
    LET limit == ArgOr(req.limit, DefaultLimit)
        ids == ReturnedIds
        size == IF limit < Cardinality(Qualifying) THEN limit
                ELSE Cardinality(Qualifying)
    IN /\ Len(ids) <= limit
       /\ \A i, j \in 1..Len(ids) :
            i < j => /\ ids[i] # ids[j]
                     /\ ~Later(block[RowOf(ids[j])].last_edited_time,
                               block[RowOf(ids[i])].last_edited_time)
       /\ \E first \in SUBSET Qualifying :
            /\ Cardinality(first) = size
            /\ \A k \in first : \A q \in Qualifying \ first :
                 ~Later(block[q].last_edited_time, block[k].last_edited_time)
            /\ {ids[i] : i \in 1..Len(ids)}
                 = {block[k].id : k \in {m \in first : Titled(m)}}

\* fewer than limit pages returned although another titled page qualifies
C10_Witness ==
  /\ Answered("listRecent")
  /\ Len(resp.value) < ArgOr(req.limit, DefaultLimit)
  /\ \E k \in Qualifying :
       Titled(k) /\ \A i \in 1..Len(resp.value) : resp.value[i].id # block[k].id

(***************************************************************************)
(* Lookups, stated on the rows of the store.                               *)
(***************************************************************************)
\* the alive collections an identifier names, whatever its dashes
CollectionsNamed(id) ==
  {k \in 1..Len(collection) :
     /\ collection[k].alive = 1
     /\ StripDashes(collection[k].id) = StripDashes(id)}

\* an iteration of the walk of getParents that reads the store
ParentsLookup ==
  /\ pc = "parents"
  /\ Truthy(loc.currentId)
  /\ loc.currentId \notin loc.visited

\* getPage has resolved pageId to the alive row whose identifier equals it
\* up to dashes, or has found none and there is none
PageLookupRight ==
  (pc = "idle" /\ req.op = "getPage" /\ ~BlankArg(req.pageId)) =>
    IF RowsNamed(req.pageId) = {}
    THEN resp = Thrown(PageNotFound(req.pageId))
    ELSE resp.kind = "ok" /\ resp.value.id = block[RowNamed(req.pageId)].id

\* and likewise the collection that the page refers to
CollectionLookupRight ==
  (Answered("getPage") /\ RowNamed(req.pageId) # 0
     /\ Truthy(block[RowNamed(req.pageId)].collection_id)) =>
    LET named == CollectionsNamed(block[RowNamed(req.pageId)].collection_id)
    IN IF named = {} THEN resp.value.database = Absent
       ELSE /\ resp.value.database # Absent
            /\ resp.value.database[1].collectionId = collection[Min(named)].id

\* C7: identifier resolution in getPage, in getParents and in the collection
\* lookup is dash-insensitive: an identifier resolves to the alive row whose
\* identifier equals it after removing all dashes from both, and to nothing
\* when there is no such row, so two identifiers that are equal after
\* removing all dashes resolve alike.
C7_DashInsensitiveLookup ==
  [][ /\ PageLookupRight'
      /\ CollectionLookupRight'
      /\ ParentsLookup =>
           IF RowNamed(loc.currentId) = 0 THEN pc' = "idle"
           ELSE /\ pc' = "parents"
                /\ loc'.currentId = block[RowNamed(loc.currentId)].parent_id
    ]_vars

\* getPage answered for a page named with a dash that is stored without,
\* whose collection is named without a dash and stored with one
C7_Witness ==
  /\ Answered("getPage")
  /\ req.pageId = Dashed(1)
  /\ resp.value.id = Undashed(1)
  /\ block[1].collection_id = Undashed(NB + 1)
  /\ resp.value.database # Absent
  /\ resp.value.database[1].collectionId = Dashed(NB + 1)

(***************************************************************************)
(* The database fields of getPage, stated on the rows of the store.        *)
(***************************************************************************)
\* the collection reference of a row: its collection_id, else its parent_id
\* when its parent_table is "collection", else none
CollectionRef(row) ==
  IF row.collection_id # NULL /\ row.collection_id # <<>>
  THEN row.collection_id
  ELSE IF row.parent_table = <<"collection">>
          /\ row.parent_id # NULL /\ row.parent_id # <<>>
  THEN row.parent_id
  ELSE NULL

ErrorText(message) ==
  <<"{", "\"", "error", "\"", ":", "\"">> \o message \o <<"\"", "}">>

\* the handler has the outcome of the operation of a request in hand
Finished == pc = "idle" /\ req # NoRequest

\* C18: a call whose operation throws (a failed argument check, a page not
\* found, a failed storage read, an unknown tool name) is answered with the
\* text {"error": message} and the error flag; and once that answer is
\* handed over, the server is in the state it was in before the call: the
\* store as it was and nothing kept of the request.
C18_ErrorsReturned ==
  /\ [](Finished =>
          /\ resp.kind \in {"ok", "error"}
          /\ req.op = "unknown" => resp.kind = "error"
          /\ (db # "ok" /\ issued # <<>>) => resp.kind = "error"
          /\ resp.kind = "error" =>
               HandlerResponse(resp)
                 = [text |-> ErrorText(resp.message), isError |-> <<TRUE>>])
  /\ [][(Finished /\ resp.kind = "error") =>
          /\ req' = NoRequest /\ pc' = "idle"
          /\ loc' = NoLocals /\ resp' = NoResponse /\ issued' = <<>>
          /\ block' = block /\ collection' = collection /\ db' = db]_vars

\* getParents has failed at its first read of a store whose process fails
C18_Witness ==
  /\ Finished /\ req.op = "getParents"
  /\ db = "failed"
  /\ resp = Thrown(QueryError)
  /\ issued = <<"SelectBlockById">>

\* the statements of database.ts, hierarchy.ts, search.ts, recent.ts and
\* getPage.ts, every one a SELECT
SelectStatements ==
  {"SelectBlockById", "SelectChildBlocks", "SelectChildPages",
   "countAllBlocks", "queryCollection", "SelectPagesLike",
   "SelectBlocksLike", "SelectRecentPages"}

RECURSIVE ParentsAlone(_, _, _, _)
ParentsAlone(pageId, currentId, visited, ancestors) ==
  IF ~Truthy(currentId) \/ currentId \in visited THEN Returned(ancestors)
  ELSE IF db # "ok" THEN Thrown(QueryError)
  ELSE LET found == SelectBlockById(Read(block), currentId, StripDashes(currentId))
       IN IF found = NoRow THEN Returned(ancestors)
          ELSE ParentsAlone(pageId, found.parent_id, visited \cup {currentId},
                 IF Len(ancestors) > 0 \/ currentId # pageId
                 THEN Append(ancestors, HierarchyNode(found,
                        IF found.type = "page" THEN createNotionUrl(found.id)
                        ELSE <<>>))
                 ELSE ancestors)

RECURSIVE CountAlone(_, _)
CountAlone(level, count) ==
  IF level = {} THEN count
  ELSE CountAlone(JoinChildren(Read(block), level), count + Cardinality(level))

GetPageAlone(r) ==
  LET summaryMode == ArgOr(r.summary, TRUE)
      options ==
        [maxBlocks |-> ArgOr(r.maxBlocks, IF summaryMode THEN SummaryMaxBlocks
                                          ELSE FullMaxBlocks),
         maxTextLength |-> IF summaryMode THEN SummaryTextLength
                           ELSE FullTextLength]
      page == SelectBlockById(Read(block), r.pageId, StripDashes(r.pageId))
      walk == getChildBlocks(page.id, 0, ArgOr(r.depth, DefaultDepth), options, 0)
      content == PageContent(page, walk.nodes)
  IN IF BlankArg(r.pageId) THEN Thrown(PageIdRequired)
     ELSE IF db # "ok" THEN Thrown(QueryError)
     ELSE IF page = NoRow THEN Thrown(PageNotFound(r.pageId))
     ELSE IF summaryMode
     THEN Completed(WithDatabase(
            WithSummary(content, walk.count,
                        CountAlone(SeedChildren(Read(block), page.id), 0)), page))
     ELSE Completed(WithDatabase(content, page))

RunAlone(r) ==
  CASE r.op = "unknown" -> Thrown(UnknownTool(r.name))
    [] r.op = "getParents" ->
         IF BlankArg(r.pageId) THEN Thrown(PageIdRequired)
         ELSE ParentsAlone(r.pageId, r.pageId, {}, <<>>)
    [] r.op = "getChildren" ->
         Outcome(getChildren(r.pageId, r.depth),
                 getChildrenQueries(r.pageId, r.depth))
    [] r.op = "search" ->
         Outcome(search(r.query, r.type, r.limit), searchQueries(r.query, r.type))
    [] r.op = "listRecent" ->
         Outcome(getRecentPages(r.now, r.limit, r.days), <<"SelectRecentPages">>)
    [] r.op = "getPage" -> GetPageAlone(r)

MaxIdLen == 33

\* most segments of a rich text
MaxSegments == 3

\* an identifier of n hexadecimal digits
HexRun(n) == [i \in 1..n |-> HexDigits[((i - 1) % 16) + 1]]

\* s with a dash put in at every offset of D
WithDashesAt(s, D) ==
  Concat([i \in 1..(Len(s) + 1) |->
            (IF (i - 1) \in D THEN <<"-">> ELSE <<>>)
              \o (IF i <= Len(s) THEN <<s[i]>> ELSE <<>>)])

\* identifiers of every length up to MaxIdLen: undashed, with one dash
\* anywhere, and with the four dashes of the dashed form
IdInputs ==
  {WithDashesAt(HexRun(n), D) :
     n \in 0..MaxIdLen, D \in {{}, {8, 12, 16, 20}} \cup {{at} : at \in 0..MaxIdLen}}

\* the texts of a segment: letters, whitespace, the glyph alone and the
\* glyph among letters, nothing
SegmentTexts ==
  {<<"a">>, <<" ">>, <<" ", "b", " ">>, <<>>, RefGlyph, RefGlyph \o <<"c">>}

RichTexts ==
  UNION {[1..n -> SegmentTexts] : n \in 0..MaxSegments}

FormatNotionIdCall(id) ==
  /\ pc = "idle" /\ req = NoRequest
  /\ req' = [op |-> "formatNotionId", id |-> id]
  /\ resp' = Returned(formatNotionId(id))
  /\ issued' = <<>> /\ loc' = NoLocals
  /\ UNCHANGED <<configFile, db, block, collection, pc>>

ExtractTextCall(texts) ==
  /\ pc = "idle" /\ req = NoRequest
  /\ req' = [op |-> "extractTextFromRichText", texts |-> texts]
  /\ resp' = Returned(extractTextFromRichText(RichText(texts)))
  /\ issued' = <<>> /\ loc' = NoLocals
  /\ UNCHANGED <<configFile, db, block, collection, pc>>

InitDecode ==
  /\ configFile = NoFiles
  /\ block = <<>>
  /\ collection = <<>>
  /\ db = "ok"
  /\ pc = "idle"
  /\ req = NoRequest
  /\ loc = NoLocals
  /\ resp = NoResponse
  /\ issued = <<>>

NextDecode ==
  \/ \E id \in IdInputs : FormatNotionIdCall(id)
  \/ \E texts \in RichTexts : ExtractTextCall(texts)
  \/ Deliver

SpecDecode == InitDecode /\ [][NextDecode]_vars

\* C23: formatNotionId gives the same result for an identifier and for
\* the identifier with its dashes removed.
C23_DashInsensitive ==
  Answered("formatNotionId") =>
    formatNotionId(StripDashes(req.id)) = resp.value

\* an identifier with a dash is returned as it is, while without the dash
\* it gets the four dashes of the dashed form
C23_DashKept ==
  /\ Answered("formatNotionId")
  /\ req.id = <<"0", "-", "1">>
  /\ resp.value = <<"0", "-", "1">>
  /\ formatNotionId(StripDashes(req.id)) = <<"0", "1", "-", "-", "-", "-">>

\* C24: for a rich text whose segments are [text], extractTextFromRichText
\* returns the texts other than the page-reference glyph, joined in order
\* with nothing between them, with the whitespace at both ends of the
\* whole removed and every other whitespace kept.
C24_PlainTextJoined ==
  Answered("extractTextFromRichText") =>
    resp.value = Trim(Concat(SelectSeq(req.texts, LAMBDA t : t # RefGlyph)))

\* a whitespace segment between two letters stays, the glyph goes, the
\* whitespace at the ends goes
C24_Witness ==
  /\ Answered("extractTextFromRichText")
  /\ req.texts = << <<" ", "b", " ">>, RefGlyph, <<"a">> >>
  /\ resp.value = <<"b", " ", "a">>

(***************************************************************************)
(* The decoders over the blobs of a database page and its collection, and  *)
(* getPage over the same store.                                            *)
(***************************************************************************)
PropertyTexts ==
  {Stringify(d) : d \in PropertyDocs \cup JsonDocs} \cup {BadJsonText, NULL, <<>>}

SchemaTexts ==
  {Stringify(d) : d \in SchemaDocs \cup {JNull, JObj(<<>>), RichText(<< <<"D">> >>)}}
    \cup {BadJsonText, NULL}

\* a page of a collection with its blocks below it
SchemaStores ==
  { [k \in 1..NB |->
       IF k = 1
       THEN [PlainRow(1) EXCEPT !.properties = properties,
                                !.collection_id = Undashed(NB + 1)]
       ELSE [PlainRow(k) EXCEPT !.parent_id = Undashed(1)]] :
      properties \in PropertyTexts }

Decoders ==
  {"extractTitle", "extractAllText", "parseSchema", "formatSchemaForDisplay",
   "parseProperties"}

\* the value a decoder ends with, on the blobs getPage hands to it
Decode(fn, propertiesJson, schemaJson) ==
  CASE fn = "extractTitle" -> JStr(extractTitle(propertiesJson))
    [] fn = "extractAllText" -> JStr(extractAllText(propertiesJson))
    [] fn = "parseSchema" -> parseSchema(schemaJson)
    [] fn = "formatSchemaForDisplay" ->
         formatSchemaForDisplay(parseSchema(schemaJson))
    [] fn = "parseProperties" ->
         parseProperties(propertiesJson, parseSchema(schemaJson))

DecoderCall(fn) ==
  /\ pc = "idle" /\ req = NoRequest
  /\ req' = [op |-> "decode", fn |-> fn,
             propertiesJson |-> block[1].properties,
             schemaJson |-> collection[1].schema]
  /\ resp' = Completed(Decode(fn, block[1].properties, collection[1].schema))
  /\ issued' = <<>> /\ loc' = NoLocals
  /\ UNCHANGED <<configFile, db, block, collection, pc>>

InitSchema ==
  /\ configFile = NoFiles
  /\ block \in SchemaStores
  /\ collection \in
       {<<CollectionRow(Undashed(NB + 1), Stringify(RichText(<< <<"D">> >>)),
                        schema, 1)>> : schema \in SchemaTexts}
  /\ db = "ok"
  /\ pc = "idle"
  /\ req = NoRequest
  /\ loc = NoLocals
  /\ resp = NoResponse
  /\ issued = <<>>

NextSchema ==
  \/ \E fn \in Decoders : DecoderCall(fn)
  \/ \E summary \in {Absent, Given(FALSE)} :
       GetPageCall(Undashed(1), Absent, summary, Absent)
  \/ CountRound
  \/ CountDone
  \/ Deliver

SpecSchema == InitSchema /\ [][NextSchema]_vars

(***************************************************************************)
(* getPage and getChildren over a page with NB blocks below it.            *)
(***************************************************************************)
\* the page of the traversals: the last row of the store
PageId == Undashed(NB + 1)

\* the blocks form a forest whose roots are the children of the page; at
\* most one block is not a page, at most one row is a tombstone (the page
\* itself included), creation times rise or fall with the row number
TraversalStores ==
  { [k \in 1..(NB + 1) |->
       IF k = NB + 1
       THEN [PlainRow(1) EXCEPT !.id = PageId, !.created_time = 0,
                                !.alive = IF dead = k THEN 0 ELSE 1]
       ELSE [PlainRow(k) EXCEPT
               !.type = IF k = textAt THEN "text" ELSE "page",
               !.parent_id = IF up[k] = 0 THEN PageId ELSE Undashed(up[k]),
               !.created_time = IF falling THEN NB - k ELSE k,
               !.alive = IF dead = k THEN 0 ELSE 1]] :
      up \in Forests, textAt \in 0..NB, dead \in 0..(NB + 1),
      falling \in BOOLEAN }

\* depths of a request: left out, negative, zero, one, more than the store
\* is deep
DepthArgs == {Absent, Given(-1), Given(0), Given(1), Given(NB)}

InitTraversal ==
  /\ configFile = NoFiles
  /\ block \in TraversalStores
  /\ collection = <<>>
  /\ db = "ok"
  /\ pc = "idle"
  /\ req = NoRequest
  /\ loc = NoLocals
  /\ resp = NoResponse
  /\ issued = <<>>

NextTraversal ==
  \/ \E depth \in DepthArgs :
       \E maxBlocks \in {Absent, Given(1), Given(2)} :
         GetPageCall(PageId, depth, Given(FALSE), maxBlocks)
  \/ \E pageId \in {PageId, Undashed(1)} :
       \E depth \in DepthArgs : ChildrenCall(pageId, depth)
  \/ Deliver

SpecTraversal == InitTraversal /\ [][NextTraversal]_vars

\* getPage and getParents of block 1 over stores whose parent references
\* may form cycles
NextCycle ==
  \/ \E summary \in {Absent, Given(FALSE)} :
       GetPageCall(Undashed(1), Absent, summary, Absent)
  \/ CountRound
  \/ CountDone
  \/ ParentsCall(Undashed(1))
  \/ ParentsStep
  \/ Deliver

SpecCycle == InitParents /\ [][NextCycle]_vars

(***************************************************************************)
(* The operations over a store whose sqlite3 process works or fails in one *)
(* of the three ways runQuery tells apart.                                 *)
(***************************************************************************)
\* forests of alive rows with undashed identifiers
PlainStores ==
  {tbl \in TreeStores :
     \A k \in 1..NB : /\ tbl[k].alive = 1 /\ tbl[k].id = Undashed(k)
                      /\ tbl[k].parent_id \in {NULL} \cup {Undashed(j) : j \in 1..NB}}

InitStorage ==
  /\ configFile = NoFiles
  /\ block \in PlainStores
  /\ collection = <<>>
  /\ db \in {"ok", "no such table", "failed", "silent"}
  /\ pc = "idle"
  /\ req = NoRequest
  /\ loc = NoLocals
  /\ resp = NoResponse
  /\ issued = <<>>

SpecStorage == InitStorage /\ [][Next]_vars

\* C21: no decoder throws, whatever the property blob and the schema blob
\* hold, and getPage of a database page does not fail on their content.
C21_DecodersTotal ==
  (Finished /\ req.op \in {"decode", "getPage"}) => resp.kind = "ok"

\* getPage of a page whose collection has a schema entry that is null
\* fails with the TypeError of formatSchemaForDisplay
C21_SchemaEntryNull ==
  /\ Finished /\ req.op = "getPage"
  /\ collection[1].schema = Stringify(JObj(<< <<<<"c">>, JNull>> >>))
  /\ resp = Thrown(NullHasNoType)

\* the name parseProperties files the property propId under
NameFor(schema, propId) ==
  LET name == Member(Member(schema, propId), NameKey)
  IN IF JTruthy(name) THEN KeyOf(name) ELSE propId

\* C22: parseProperties returns null for a blob that is absent or does not
\* parse, and for a blob that parses to an object it returns a mapping
\* with an entry for every property of the blob that has a value.
C22_ProjectTotal ==
  (Answered("decode") /\ req.fn = "parseProperties") =>
    LET raw == JsonParse(req.propertiesJson)
        schema == parseSchema(req.schemaJson)
    IN /\ (~Truthy(req.propertiesJson) \/ raw.t = "error") => resp.value = JNull
       /\ (Truthy(req.propertiesJson) /\ raw.t = "obj") =>
            /\ resp.value.t = "obj"
            /\ \A i \in 1..Len(raw.v) :
                 JTruthy(raw.v[i][2]) =>
                   Member(resp.value, NameFor(schema, raw.v[i][1])) # JUndefined

\* a relation whose value is an object: parseProperties returns null for a
\* blob that parses to an object
C22_RelationNotIterable ==
  /\ Answered("decode") /\ req.fn = "parseProperties"
  /\ req.propertiesJson = Stringify(JObj(<< <<<<"r">>, JObj(<<>>)>> >>))
  /\ req.schemaJson = Stringify(FullSchema)
  /\ resp.value = JNull

(***************************************************************************)
(* The trees of getPage and getChildren.                                   *)
(***************************************************************************)
\* the row of an identifier
Row(id) == block[RowOf(id)]

\* the alive rows directly below an identifier, earliest created first
RECURSIVE ByCreation(_)
ByCreation(ids) ==
  IF ids = {} THEN <<>>
  ELSE LET first == CHOOSE id \in ids :
                      \A other \in ids :
                        Row(id).created_time <= Row(other).created_time
       IN <<first>> \o ByCreation(ids \ {first})

AliveChildren(parentId) ==
  ByCreation({block[k].id : k \in {i \in 1..Len(block) :
                 block[i].alive = 1 /\ block[i].parent_id = parentId}})

\* the depth-first pre-order walk of the alive subtree below an identifier,
\* down to maxDepth levels
RECURSIVE PreOrder(_, _, _)
PreOrder(parentId, level, maxDepth) ==
  IF level >= maxDepth THEN <<>>
  ELSE LET kids == AliveChildren(parentId)
       IN Concat([i \in 1..Len(kids) |->
                    <<kids[i]>> \o PreOrder(kids[i], level + 1, maxDepth)])

\* the identifiers of a returned tree, every node before its children and
\* a subtree before the next sibling
RECURSIVE Flatten(_)
Flatten(nodes) ==
  IF nodes = <<>> THEN <<>>
  ELSE <<Head(nodes).id>> \o Flatten(Head(nodes).children)
         \o Flatten(Tail(nodes))

\* every node of a returned tree lies under its parent in the store
RECURSIVE Nested(_, _)
Nested(nodes, parentId) ==
  \A i \in 1..Len(nodes) :
    /\ Row(nodes[i].id).parent_id = parentId
    /\ Nested(nodes[i].children, nodes[i].id)

\* the number of levels of a returned tree
RECURSIVE Height(_)
Height(nodes) ==
  IF nodes = <<>> THEN 0
  ELSE LET below == {Height(nodes[i].children) : i \in 1..Len(nodes)}
       IN 1 + CHOOSE h \in below : \A g \in below : g <= h

\* C25: the blocks getPage emits are the first `cap` blocks of the
\* depth-first pre-order walk of the alive subtree below the page, cut at
\* the depth, siblings by ascending creation time (all of the walk when it
\* is shorter than the cap), each nested under its parent.
C25_PreOrderPrefix ==
  (Answered("getPage") /\ ArgOr(req.maxBlocks, 1) > 0) =>
    LET cap == ArgOr(req.maxBlocks, IF ArgOr(req.summary, TRUE)
                                    THEN SummaryMaxBlocks ELSE FullMaxBlocks)
        walk == PreOrder(resp.value.id, 0, ArgOr(req.depth, DefaultDepth))
    IN /\ Flatten(resp.value.content)
            = SubSeq(walk, 1, IF cap < Len(walk) THEN cap ELSE Len(walk))
       /\ Nested(resp.value.content, resp.value.id)

\* capped at two: the first child and its child are shown, a later child
\* of the page is left out
C25_Witness ==
  /\ Answered("getPage") /\ req.maxBlocks = Given(2)
  /\ Len(resp.value.content) = 1
  /\ Len(resp.value.content[1].children) = 1
  /\ Len(AliveChildren(resp.value.id)) = 2

RECURSIVE PagesUnder(_, _)
PagesUnder(nodes, parentId) ==
  \A i \in 1..Len(nodes) :
    LET row == Row(nodes[i].id)
    IN /\ row.alive = 1 /\ row.type = "page" /\ nodes[i].type = "page"
       /\ row.parent_id = parentId
       /\ i > 1 => Row(nodes[i - 1].id).created_time <= row.created_time
       /\ PagesUnder(nodes[i].children, nodes[i].id)

\* the identifiers of the blocks that are not pages
NonPageIds == {block[k].id : k \in {i \in 1..Len(block) : block[i].type # "page"}}

C28_FailedReadSurfaces ==
  (Finished /\ db # "ok" /\ issued # <<>>) =>
    /\ resp = Thrown(QueryError)
    /\ Len(issued) = 1

\* the process exits with status 1 and an empty stderr: getChildren of a
\* page with a child page returns an empty forest
C28_SilentFailure ==
  /\ Answered("getChildren") /\ db = "silent"
  /\ resp.value = <<>>
  /\ ArgOr(req.depth, DefaultDepth) > 0
  /\ \E k \in 1..Len(block) :
       /\ block[k].parent_id = req.pageId
       /\ block[k].type = "page" /\ block[k].alive = 1

(***************************************************************************)
(* Termination on stores with parent cycles.                               *)
(***************************************************************************)
\* C29: getPage comes to its end on every store, the stores where the
\* page lies on a cycle of parent references included: the recursive
\* count of a summary request never gets into rounds that repeat, as the
\* walk of getParents makes at most NB + 1 reads.
C29_GetPageTerminates ==
  /\ pc = "count" => ~CountDiverges
  /\ pc = "parents" => loc.reads <= NB + 1

\* blocks 1 and 2 are each other's parent: the count of getPage(1) has
\* counted more rows than the table holds and goes on
C29_CountLoops ==
  /\ pc = "count" /\ req.op = "getPage" /\ req.summary = Absent
  /\ CountDiverges
  /\ loc.level # {}
  /\ block[1].parent_id = block[2].id /\ block[2].parent_id = block[1].id

(***************************************************************************)
(* Setup (setup.ts): adding the notion-local server to the configuration   *)
(* files of Claude Desktop and Claude Code.                                *)
(***************************************************************************)
McpServersKey == <<"mcpServers">>

NotionLocalKey == <<"notion-local">>

Spaces(n) == [i \in 1..n |-> " "]

\* JSON.stringify(value, null, 2)
RECURSIVE StringifyIndented(_, _)
StringifyIndented(j, indent) ==
  CASE j.t = "arr" /\ j.v # <<>> ->
         <<"[", "\n">>
           \o JoinWith([i \in 1..Len(j.v) |->
                 Spaces(indent + 2) \o StringifyIndented(j.v[i], indent + 2)],
                 <<",", "\n">>)
           \o <<"\n">> \o Spaces(indent) \o <<"]">>
    [] j.t = "obj" /\ j.v # <<>> ->
         <<"{", "\n">>
           \o JoinWith([i \in 1..Len(j.v) |->
                 Spaces(indent + 2) \o <<"\"">> \o j.v[i][1] \o <<"\"", ":", " ">>
                   \o StringifyIndented(j.v[i][2], indent + 2)],
                 <<",", "\n">>)
           \o <<"\n">> \o Spaces(indent) \o <<"}">>
    [] OTHER -> Stringify(j)

\* the text writeConfigFile writes
ConfigText(config) == StringifyIndented(config, 0) \o <<"\n">>

\* what generateMcpConfig can return on a host: node by its absolute path
\* with the main script, or npx with the package name
McpConfig(command, args) ==
  JObj(<< <<<<"command">>, JStr(command)>>,
          <<<<"args">>, JArr(args)>>,
          <<<<"env">>, JObj(<< <<<<"NOTION_DB_PATH">>, JStr(<<"notion.db">>)>>,
                               <<<<"PATH">>, JStr(<<"/usr/bin">>)>> >>)>> >>)

generateMcpConfig ==
  { McpConfig(<<"/usr/bin/node">>, <<JStr(<<"dist/index.js">>)>>),
    McpConfig(<<"npx">>, <<JStr(<<"-y">>), JStr(<<"@lulee/notion-local-mcp">>)>>) }

\* { ...generateMcpConfig(notionDbPath), type: 'stdio' }
WithStdio(generated) ==
  JObj(SetMember(generated.v, <<"type">>, JStr(<<"stdio">>)))

\* a server entry some other tool or an earlier version wrote
OtherServer == JObj(<< <<<<"command">>, JStr(<<"o">>)>> >>)

ThemeEntry == <<<<"theme">>, JStr(<<"d">>)>>

Servers(entries) == <<McpServersKey, JObj(entries)>>

\* the values a configuration file can hold before setup runs
ConfigDocs ==
  { JObj(<<>>),
    JObj(<<ThemeEntry>>),
    JObj(<<Servers(<<>>)>>),
    JObj(<<ThemeEntry, Servers(<< <<<<"o">>, OtherServer>> >>)>>),
    JObj(<<Servers(<< <<NotionLocalKey, OtherServer>> >>)>>),
    JObj(<<Servers(<< <<<<"o">>, OtherServer>>,
                      <<NotionLocalKey, OtherServer>> >>), ThemeEntry>>),
    JObj(<<Servers(<< <<NotionLocalKey, JNull>>, <<<<"o">>, OtherServer>> >>)>>),
    JObj(<< <<McpServersKey, JNull>>, ThemeEntry >>),
    JObj(<< <<McpServersKey, JStr(<<"x">>)>> >>),
    JObj(<< <<McpServersKey, JArr(<<>>)>>, ThemeEntry >>),
    JNull,
    JStr(<<"x">>),
    JArr(<<JStr(<<"x">>)>>) }

\* the text of a value with a comma before its last bracket: no JSON
WithTrailingComma(d) ==
  LET text == Stringify(d)
  IN SubSeq(text, 1, Len(text) - 1) \o <<",", text[Len(text)]>>

\* the objects whose text is also there in a form that does not parse
BrokenDocs ==
  { JObj(<<ThemeEntry>>),
    JObj(<<ThemeEntry, Servers(<< <<<<"o">>, OtherServer>> >>)>>),
    JObj(<<Servers(<< <<NotionLocalKey, OtherServer>> >>)>>) }

\* the contents of a configuration file before setup runs
ConfigTexts ==
  {ConfigText(d) : d \in ConfigDocs}
    \cup {Stringify(d) : d \in BrokenDocs}
    \cup {WithTrailingComma(d) : d \in BrokenDocs}
    \cup {<<>>}

\* config.mcpServers['notion-local'] = entry, after config.mcpServers = {}
\* where it was falsy; a property set on an array is no element of it
WithServer(config, entry) ==
  IF config.t # "obj" THEN config
  ELSE LET servers == Member(config, McpServersKey)
       IN IF ~JTruthy(servers)
          THEN JObj(SetMember(config.v, McpServersKey,
                              JObj(<< <<NotionLocalKey, entry>> >>)))
          ELSE IF servers.t = "obj"
          THEN JObj(SetMember(config.v, McpServersKey,
                              JObj(SetMember(servers.v, NotionLocalKey, entry))))
          ELSE config

ServerEntries == generateMcpConfig \cup {WithStdio(g) : g \in generateMcpConfig}

\* every value a configuration file can hold, before or after setup
AllConfigDocs ==
  ConfigDocs \cup {WithServer(d, e) : d \in ConfigDocs, e \in ServerEntries}

ConfigParseTable ==
  {<<ConfigText(d), d>> : d \in AllConfigDocs}
    \cup {<<Stringify(d), d>> : d \in BrokenDocs}

\* JSON.parse on the texts a configuration file can hold
ConfigParse(text) ==
  IF \E p \in ConfigParseTable : p[1] = text
  THEN (CHOOSE p \in ConfigParseTable : p[1] = text)[2]
  ELSE ParseError

readConfigFile(path) ==
  IF configFile[path] = NoFile THEN JObj(<<>>)
  ELSE IF ConfigParse(configFile[path]).t = "error" THEN JObj(<<>>)
  ELSE ConfigParse(configFile[path])

NullHasNoServers == <<"Cannot read properties of null (reading 'mcpServers')">>

CannotCreateProperty == <<"Cannot create property on a primitive value">>

AlreadyConfigured == <<"notion-local is already configured">>

Configured == <<"Successfully configured notion-local">>

SetupResult(path, message) ==
  Returned([success |-> TRUE, path |-> path, message |-> message])

\* the body setupClaudeDesktop and setupClaudeCode share, in strict mode:
\* what it returns or throws, and the text it writes (NoFile: no write)
Configure(path, config, entry) ==
  LET servers0 == Member(config, McpServersKey)
      servers == IF JTruthy(servers0) THEN servers0 ELSE JObj(<<>>)
      existingConfig == Member(servers, NotionLocalKey)
  IN IF config.t = "null"
     THEN [resp |-> Thrown(NullHasNoServers), written |-> NoFile]
     ELSE IF ~JTruthy(servers0) /\ config.t \notin {"obj", "arr"}
     THEN [resp |-> Thrown(CannotCreateProperty), written |-> NoFile]
     ELSE IF JTruthy(existingConfig)
     THEN [resp |-> SetupResult(path, AlreadyConfigured), written |-> NoFile]
     ELSE IF servers.t \notin {"obj", "arr"}
     THEN [resp |-> Thrown(CannotCreateProperty), written |-> NoFile]
     ELSE [resp |-> SetupResult(path, Configured),
           written |-> ConfigText(WithServer(config, entry))]

Setup(op, path, entry) ==
  /\ pc = "idle" /\ req = NoRequest
  /\ req' = [op |-> op, path |-> path]
  /\ LET config == readConfigFile(path)
         done == Configure(path, config, entry)
     IN /\ resp' = done.resp
        /\ loc' = [fn |-> op, content |-> configFile[path], config |-> config]
        /\ IF done.written = NoFile
           THEN configFile' = configFile /\ issued' = <<>>
           ELSE /\ configFile' = [configFile EXCEPT ![path] = done.written]
                /\ issued' = <<"writeFileSync">>
  /\ UNCHANGED <<db, block, collection, pc>>

setupClaudeDesktop ==
  \E g \in generateMcpConfig :
    Setup("setupClaudeDesktop", "claude_desktop_config.json", g)

setupClaudeCode ==
  \E g \in generateMcpConfig :
    Setup("setupClaudeCode", ".claude.json", WithStdio(g))

\* the setup function has returned to runSetup
SetupReturn ==
  /\ pc = "idle" /\ req # NoRequest
  /\ req' = NoRequest
  /\ loc' = NoLocals
  /\ resp' = NoResponse
  /\ issued' = <<>>
  /\ UNCHANGED <<configFile, db, block, collection, pc>>

InitSetup ==
  /\ configFile \in [ConfigPaths -> ConfigTexts \cup {NoFile}]
  /\ block = <<>>
  /\ collection = <<>>
  /\ db = "ok"
  /\ pc = "idle"
  /\ req = NoRequest
  /\ loc = NoLocals
  /\ resp = NoResponse
  /\ issued = <<>>

NextSetup ==
  \/ setupClaudeDesktop
  \/ setupClaudeCode
  \/ SetupReturn

SpecSetup == InitSetup /\ [][NextSetup]_vars

(***************************************************************************)
(* Setup keeps what the configuration file held.                           *)
(***************************************************************************)
\* what a file holds for a reader that passes over a trailing comma
Holds(text) ==
  IF text = NoFile THEN JObj(<<>>)
  ELSE IF \E d \in BrokenDocs : WithTrailingComma(d) = text
  THEN CHOOSE d \in BrokenDocs : WithTrailingComma(d) = text
  ELSE IF ConfigParse(text).t = "error" THEN JObj(<<>>)
  ELSE ConfigParse(text)

Keys(j) == IF j.t = "obj" THEN {j.v[i][1] : i \in 1..Len(j.v)} ELSE {}

SetupFinished ==
  Finished /\ req.op \in {"setupClaudeDesktop", "setupClaudeCode"}

\* C30: after setupClaudeDesktop or setupClaudeCode has run, every
\* top-level key the file held beforehand is there with the value it had
\* (mcpServers itself with every entry it had), whatever the file held; and
\* when the file held a notion-local entry it is not written, so that a
\* second run leaves it as the first run left it.
C30_ConfigPreserved ==
  SetupFinished =>
    LET before == Holds(loc.content)
        after == Holds(configFile[req.path])
        serversBefore == Member(before, McpServersKey)
        serversAfter == Member(after, McpServersKey)
    IN /\ \A k \in Keys(before) \ {McpServersKey} :
            Member(after, k) = Member(before, k)
       /\ McpServersKey \in Keys(before) => McpServersKey \in Keys(after)
       /\ \A n \in Keys(serversBefore) :
            Member(serversAfter, n) = Member(serversBefore, n)
       /\ NotionLocalKey \in Keys(serversBefore) =>
            issued = <<>> /\ configFile[req.path] = loc.content

\* a file with a theme, a server of another tool and a trailing comma has
\* been replaced by one that holds the notion-local server alone
C30_UnparsableReplaced ==
  /\ SetupFinished /\ req.op = "setupClaudeDesktop"
  /\ loc.content =
       WithTrailingComma(JObj(<<ThemeEntry, Servers(<< <<<<"o">>, OtherServer>> >>)>>))
  /\ issued = <<"writeFileSync">>
  /\ Keys(ConfigParse(configFile[req.path])) = {McpServersKey}
  /\ Keys(Member(ConfigParse(configFile[req.path]), McpServersKey)) = {NotionLocalKey}

====
